---- MODULE Spec2Model ----
(***************************************************************************)
(* Block Blast engine (src/game.py): bitboard, piece catalog, validation,  *)
(* line clearing, scoring/combo state machine, uniform and guaranteed      *)
(* dealing.  One BlockBlast session is the flat state; the board is kept   *)
(* as the integer the code keeps, bit y*width+x for cell (x, y).           *)
(***************************************************************************)
EXTENDS Integers, Sequences, FiniteSets, TLC

(***************************************************************************)
(* Bounds of the model.                                                    *)
(***************************************************************************)
\* the board sizes (width, height) a session is constructed with
BoardSizes == {<<1, 1>>, <<2, 1>>, <<2, 2>>}
\* the board sizes on which single operations are run from any board
WideBoardSizes == {<<2, 2>>, <<3, 2>>, <<2, 3>>}
\* the board of the row-filling runs: 8 wide as the default board, cut to
\* 2 rows so that the board fits the 32-bit integers of the model checker
RowBoardSizes == {<<8, 2>>}
KnownSizes == BoardSizes \cup WideBoardSizes \cup RowBoardSizes \cup {<<4, 2>>}
\* the catalog is cut to its first NumPieces names (in CatalogOrder)
NumPieces == 4
\* the row-filling runs accept at most RowMoves placements
RowMoves == 4
\* the runs with a gap between line clears accept at most GapMoves placements
GapMoves == 5
\* the board sizes of those runs
GapBoardSizes == {<<3, 2>>, <<4, 2>>}
\* the long combo runs accept at most LongMoves placements
LongMoves == 12
\* the runs from any board accept at most WideMoves placements
WideMoves == 1
\* the board sizes of those runs
MidGameBoardSizes == {<<3, 2>>, <<2, 3>>}
\* the runs over two deals accept at most RoundMoves placements
RoundMoves == 6
\* the bot runs accept at most BotMoves placements
BotMoves == 6
\* the board sizes of the long runs
LongBoardSizes == {<<2, 2>>, <<2, 1>>}
\* a session accepts at most MaxMoves successful make_move calls
MaxMoves == 3
\* try_move is called on sessions of at most MaxTryMoves accepted moves
MaxTryMoves == 1

(***************************************************************************)
(* Integer bit operations, as Python's on non-negative ints.               *)
(***************************************************************************)
RECURSIVE BitAnd(_, _)
BitAnd(a, b) ==
    IF a = 0 \/ b = 0 THEN 0
    ELSE (a % 2) * (b % 2) + 2 * BitAnd(a \div 2, b \div 2)

RECURSIVE BitOr(_, _)
BitOr(a, b) ==
    IF a = 0 THEN b
    ELSE IF b = 0 THEN a
    ELSE (IF a % 2 = 1 \/ b % 2 = 1 THEN 1 ELSE 0) + 2 * BitOr(a \div 2, b \div 2)

\* a & ~m
BitAndNot(a, m) == a - BitAnd(a, m)

\* a << n and a >> n
Shl(a, n) == a * (2 ^ n)
Shr(a, n) == a \div (2 ^ n)

\* int.bit_count()
RECURSIVE bit_count(_)
bit_count(a) == IF a = 0 THEN 0 ELSE (a % 2) + bit_count(a \div 2)

(***************************************************************************)
(* Piece catalog: _initialize_piece_data.                                  *)
(***************************************************************************)
name_to_pieces ==
       "sq1" :> 1 @@ "sq2" :> 15 @@ "sq3" :> 511 @@
       "line2h" :> 3 @@ "line3h" :> 7 @@ "line4h" :> 15 @@ "line5h" :> 31 @@
       "line2v" :> 3 @@ "line3v" :> 7 @@ "line4v" :> 15 @@ "line5v" :> 31 @@
       "diag2" :> 6 @@ "diag3" :> 84 @@ "diag2f" :> 9 @@ "diag3f" :> 273 @@
       "l1" :> 43 @@ "l2" :> 60 @@ "l3" :> 53 @@ "l4" :> 15 @@
       "l1f" :> 23 @@ "l2f" :> 39 @@ "l3f" :> 58 @@ "l4f" :> 57 @@
       "t1" :> 23 @@ "t2" :> 29 @@ "t3" :> 58 @@ "t4" :> 46 @@
       "s1" :> 30 @@ "s2" :> 45 @@ "s1f" :> 51 @@ "s2f" :> 30 @@
       "L1" :> 295 @@ "L2" :> 484 @@ "L3" :> 457 @@ "L4" :> 79 @@
       "sL1" :> 11 @@ "sL2" :> 14 @@ "sL3" :> 13 @@ "sL4" :> 7

name_to_size ==
       "sq1" :> <<1, 1>> @@ "sq2" :> <<2, 2>> @@ "sq3" :> <<3, 3>> @@
       "line2h" :> <<2, 1>> @@ "line3h" :> <<3, 1>> @@ "line4h" :> <<4, 1>> @@
       "line5h" :> <<5, 1>> @@
       "line2v" :> <<1, 2>> @@ "line3v" :> <<1, 3>> @@ "line4v" :> <<1, 4>> @@
       "line5v" :> <<1, 5>> @@
       "diag2" :> <<2, 2>> @@ "diag3" :> <<3, 3>> @@ "diag2f" :> <<2, 2>> @@
       "diag3f" :> <<3, 3>> @@
       "l1" :> <<2, 3>> @@ "l2" :> <<3, 2>> @@ "l3" :> <<2, 3>> @@ "l4" :> <<3, 2>> @@
       "l1f" :> <<2, 3>> @@ "l2f" :> <<3, 2>> @@ "l3f" :> <<2, 3>> @@ "l4f" :> <<3, 2>> @@
       "t1" :> <<3, 2>> @@ "t2" :> <<2, 3>> @@ "t3" :> <<3, 2>> @@ "t4" :> <<2, 3>> @@
       "s1" :> <<3, 2>> @@ "s2" :> <<2, 3>> @@ "s1f" :> <<3, 2>> @@ "s2f" :> <<2, 3>> @@
       "L1" :> <<3, 3>> @@ "L2" :> <<3, 3>> @@ "L3" :> <<3, 3>> @@ "L4" :> <<3, 3>> @@
       "sL1" :> <<2, 2>> @@ "sL2" :> <<2, 2>> @@ "sL3" :> <<2, 2>> @@ "sL4" :> <<2, 2>>

\* The keys of name_to_pieces.  random.sample and random.shuffle treat every
\* position of the list alike, so the order of the list is not observable; the
\* model lists the keys in the order in which it admits them under NumPieces.
CatalogOrder ==
    << "sq1", "line2h", "line2v", "diag2", "sq2", "line3h", "line3v", "sL1",
       "sq3", "line4h", "line4v", "diag2f", "sL2", "sL3", "sL4", "line5h",
       "line5v", "diag3", "diag3f", "l1", "l2", "l3", "l4", "l1f", "l2f",
       "l3f", "l4f", "t1", "t2", "t3", "t4", "s1", "s2", "s1f", "s2f",
       "L1", "L2", "L3", "L4" >>

\* self.all_piece_names = list(self.name_to_pieces.keys())
all_piece_names == SubSeq(CatalogOrder, 1, NumPieces)

PieceNames == {all_piece_names[i] : i \in 1..Len(all_piece_names)}

(***************************************************************************)
(* Board geometry: _precompute_masks.                                      *)
(***************************************************************************)
\* scaled_mask |= row_bits << (r * self.width), r in range(piece_h)
RECURSIVE ScaledRows(_, _, _, _, _)
ScaledRows(compact_mask, piece_w, piece_h, w, r) ==
    IF r >= piece_h THEN 0
    ELSE BitOr(Shl(BitAnd(Shr(compact_mask, r * piece_w), (2 ^ piece_w) - 1), r * w),
               ScaledRows(compact_mask, piece_w, piece_h, w, r + 1))

\* the tables are computed once per board size, as _precompute_masks does
PieceMaskTable ==
    [board_size \in KnownSizes |->
        [name \in PieceNames \cup {"line4h"} |->
            ScaledRows(name_to_pieces[name], name_to_size[name][1],
                       name_to_size[name][2], board_size[1], 0)]]

name_to_piece_masks(w, h, name) == PieceMaskTable[<<w, h>>][name]

\* row_masks[r] = ((1 << width) - 1) << (r * width)
RowMaskTable ==
    [board_size \in KnownSizes |->
        [r \in 0..(board_size[2] - 1) |-> Shl((2 ^ board_size[1]) - 1, r * board_size[1])]]

row_masks(w, h) == RowMaskTable[<<w, h>>]

\* col_masks[c] |= 1 << (r * width + c), r in range(height)
RECURSIVE ColBits(_, _, _, _)
ColBits(w, h, c, r) ==
    IF r >= h THEN 0 ELSE BitOr(Shl(1, r * w + c), ColBits(w, h, c, r + 1))

ColMaskTable ==
    [board_size \in KnownSizes |->
        [c \in 0..(board_size[1] - 1) |-> ColBits(board_size[1], board_size[2], c, 0)]]

col_masks(w, h) == ColMaskTable[<<w, h>>]

(***************************************************************************)
(* Placement and validation.                                               *)
(***************************************************************************)
\* name_to_piece_masks[piece_name] << (py * self.width + px)
get_piece_mask(w, h, piece_name, position) ==
    Shl(name_to_piece_masks(w, h, piece_name), position[2] * w + position[1])

\* faulty variant: only the cell at the position itself is tested
is_valid_moveAnchorOnly(w, h, b, piece_name, position) ==
    LET piece_w == name_to_size[piece_name][1]
        piece_h == name_to_size[piece_name][2]
        px == position[1]
        py == position[2]
    IN  IF px < 0 \/ py < 0 \/ px + piece_w > w \/ py + piece_h > h
        THEN FALSE
        ELSE Shr(b, py * w + px) % 2 = 0

\* faulty variant: the right and bottom edges are not checked
is_valid_moveOpenEdges(w, h, b, piece_name, position) ==
    IF position[1] < 0 \/ position[2] < 0
    THEN FALSE
    ELSE BitAnd(b, get_piece_mask(w, h, piece_name, position)) = 0

is_valid_move(w, h, b, piece_name, position) ==
    LET piece_w == name_to_size[piece_name][1]
        piece_h == name_to_size[piece_name][2]
        px == position[1]
        py == position[2]
    IN  IF px < 0 \/ py < 0 \/ px + piece_w > w \/ py + piece_h > h
        THEN FALSE
        ELSE BitAnd(b, get_piece_mask(w, h, piece_name, position)) = 0

\* range(height) x range(width) in scan order: y outer, x inner
RowMajorTable ==
    [board_size \in KnownSizes |->
        [k \in 1..(board_size[1] * board_size[2]) |->
            <<(k - 1) % board_size[1], (k - 1) \div board_size[1]>>]]

RowMajor(w, h) == RowMajorTable[<<w, h>>]

\* for y in range(height): for x in range(width): if is_valid_move: return (x, y)
\* return False   -- <<>> stands for False, <<x, y>> for the (truthy) tuple
RECURSIVE FirstValidFrom(_, _, _, _, _)
FirstValidFrom(w, h, b, piece_name, k) ==
    IF k > w * h THEN << >>
    ELSE IF is_valid_move(w, h, b, piece_name, RowMajor(w, h)[k])
         THEN RowMajor(w, h)[k]
         ELSE FirstValidFrom(w, h, b, piece_name, k + 1)

\* faulty variant: the scan looks at an empty board instead of the board given
_can_place_pieceIgnoresBoard(w, h, b, piece_name) == FirstValidFrom(w, h, 0, piece_name, 1)

_can_place_piece(w, h, b, piece_name) == FirstValidFrom(w, h, b, piece_name, 1)

\* faulty variant: the scan runs x outer, y inner
ValidPositionsColumnMajor(w, h, b, piece_name) ==
    SelectSeq([k \in 1..(w * h) |-> <<(k - 1) \div h, (k - 1) % h>>],
              LAMBDA pos : is_valid_move(w, h, b, piece_name, pos))

\* faulty variant: a position is listed when its own cell is free
ValidPositionsAnchorOnly(w, h, b, piece_name) ==
    SelectSeq(RowMajor(w, h), LAMBDA pos : is_valid_moveAnchorOnly(w, h, b, piece_name, pos))

\* the moves list get_possible_moves builds for one name
ValidPositions(w, h, b, piece_name) ==
    SelectSeq(RowMajor(w, h), LAMBDA pos : is_valid_move(w, h, b, piece_name, pos))

SeqRange(q) == {q[i] : i \in 1..Len(q)}

\* dict name -> moves, only for held names whose moves list is not empty
get_possible_moves(w, h, b, pieces) ==
    [name \in {n \in SeqRange(pieces) : ValidPositions(w, h, b, n) # << >>}
        |-> ValidPositions(w, h, b, name)]

\* `not self.get_possible_moves()`
NoPossibleMoves(w, h, b, pieces) == DOMAIN get_possible_moves(w, h, b, pieces) = {}

(***************************************************************************)
(* Line detection and clearing.                                            *)
(***************************************************************************)
\* for mask in masks: if (board & mask) == mask: lines_cleared += 1; cleared_mask |= mask
RECURSIVE ScanMasks(_, _, _, _)
ScanMasks(b, masks, i, acc) ==
    IF i \notin DOMAIN masks THEN acc
    ELSE ScanMasks(b, masks, i + 1,
            IF BitAnd(b, masks[i]) = masks[i]
            THEN [lines_cleared |-> acc.lines_cleared + 1,
                  cleared_mask |-> BitOr(acc.cleared_mask, masks[i])]
            ELSE acc)

\* faulty variant: only the full rows are cleared, full columns are counted and kept
MakeMoveClearRowsOnly(w, h, placed) ==
    LET rows == ScanMasks(placed, row_masks(w, h), 0, [lines_cleared |-> 0, cleared_mask |-> 0])
        all  == ScanMasks(placed, col_masks(w, h), 0, rows)
    IN  [lines_cleared |-> all.lines_cleared,
         board |-> IF all.lines_cleared > 0
                   THEN BitAndNot(placed, rows.cleared_mask) ELSE placed]

\* faulty variant: the full rows are cleared first and the columns are looked
\* for on what is left
MakeMoveClearRowsThenColumns(w, h, placed) ==
    LET none == [lines_cleared |-> 0, cleared_mask |-> 0]
        rows == ScanMasks(placed, row_masks(w, h), 0, none)
        left == BitAndNot(placed, rows.cleared_mask)
        cols == ScanMasks(left, col_masks(w, h), 0, none)
    IN  [lines_cleared |-> rows.lines_cleared + cols.lines_cleared,
         board |-> BitAndNot(left, cols.cleared_mask)]

\* faulty variant: make_move counts the full lines and leaves them on the board
MakeMoveClearKeepsLines(w, h, placed) ==
    LET rows == ScanMasks(placed, row_masks(w, h), 0, [lines_cleared |-> 0, cleared_mask |-> 0])
        all  == ScanMasks(placed, col_masks(w, h), 0, rows)
    IN  [lines_cleared |-> all.lines_cleared, board |-> placed]

\* make_move, lines 210-224: rows then columns, all against the placed board
MakeMoveClear(w, h, placed) ==
    LET rows == ScanMasks(placed, row_masks(w, h), 0, [lines_cleared |-> 0, cleared_mask |-> 0])
        all  == ScanMasks(placed, col_masks(w, h), 0, rows)
    IN  [lines_cleared |-> all.lines_cleared,
         board |-> IF all.lines_cleared > 0
                   THEN BitAndNot(placed, all.cleared_mask) ELSE placed]

\* faulty variant: full lines are counted but the board is not cleared
TryMoveClearKeepsLines(w, h, placed) ==
    LET rows == ScanMasks(placed, row_masks(w, h), 0, [lines_cleared |-> 0, cleared_mask |-> 0])
        all  == ScanMasks(placed, col_masks(w, h), 0, rows)
    IN  [lines_cleared |-> all.lines_cleared, board |-> placed]

\* faulty variant: try_move looks for full columns only
TryMoveClearColumnsOnly(w, h, placed) ==
    LET cols == ScanMasks(placed, col_masks(w, h), 0, [lines_cleared |-> 0, cleared_mask |-> 0])
    IN  [lines_cleared |-> cols.lines_cleared,
         board |-> BitAndNot(placed, cols.cleared_mask)]

\* try_move, lines 267-283
TryMoveClear(w, h, placed) ==
    LET rows == ScanMasks(placed, row_masks(w, h), 0, [lines_cleared |-> 0, cleared_mask |-> 0])
        all  == ScanMasks(placed, col_masks(w, h), 0, rows)
    IN  [lines_cleared |-> all.lines_cleared,
         board |-> IF all.lines_cleared > 0
                   THEN BitAndNot(placed, all.cleared_mask) ELSE placed]

\* try_move up to line 283, for a placement that passed is_valid_move
TryMovePlaced(w, h, b, piece_name, position) ==
    TryMoveClear(w, h, BitOr(b, get_piece_mask(w, h, piece_name, position)))

(***************************************************************************)
(* Scoring.  score_increment and score_incremental_acceleration are        *)
(* floats in the code; the model keeps them as integers in units of        *)
(* 10^-5, so 34.2 is 3420000.                                              *)
(***************************************************************************)
Unit == 10 ^ 5

BASE_SCORE_ACCELERATION == 3420000

\* SCORE_MULTIPLIERS.get(lines_cleared, 30.0)
SCORE_MULTIPLIERS(lines_cleared) ==
    CASE lines_cleared = 1 -> 1
      [] lines_cleared = 2 -> 2
      [] lines_cleared = 3 -> 6
      [] lines_cleared = 4 -> 12
      [] lines_cleared = 5 -> 20
      [] lines_cleared = 6 -> 30
      [] OTHER -> 30

\* x * (num / den), without an intermediate product above 2^31
MulRatio(x, num, den) == (x \div den) * num + ((x % den) * num) \div den

\* faulty variant: the thresholds are taken one combo level late
AccelerateOneLate(combo_now, acc) ==
    CASE combo_now = 1  -> BASE_SCORE_ACCELERATION
      [] combo_now = 6  -> acc * 4
      [] combo_now = 7  -> MulRatio(acc, 375, 1000)
      [] combo_now = 11 -> MulRatio(acc, 46666, 10000)
      [] combo_now = 12 -> MulRatio(acc, 2857, 10000)
      [] OTHER -> acc

\* faulty variant: from combo 5 on the acceleration is held at four times the
\* base; the later thresholds are not applied
AccelerateHeldFromFive(combo_now, acc) ==
    CASE combo_now = 0  -> BASE_SCORE_ACCELERATION
      [] combo_now >= 5 -> BASE_SCORE_ACCELERATION * 4
      [] OTHER -> acc

\* match self.combo: (lines 233-238)
Accelerate(combo_now, acc) ==
    CASE combo_now = 0  -> BASE_SCORE_ACCELERATION
      [] combo_now = 5  -> acc * 4
      [] combo_now = 6  -> MulRatio(acc, 375, 1000)
      [] combo_now = 10 -> MulRatio(acc, 46666, 10000)
      [] combo_now = 11 -> MulRatio(acc, 2857, 10000)
      [] OTHER -> acc

\* int(self.score_increment * multiplier)
Bonus(inc, mult) == (inc \div Unit) * mult + ((inc % Unit) * mult) \div Unit

\* faulty variant: the bonus is taken from the accumulator as it was before
\* this move's acceleration was added
ScoreStepBonusBeforeAdd(s, lines_cleared) ==
    IF lines_cleared > 0
    THEN LET c1 == s.combo + 1
             a1 == Accelerate(c1, s.score_incremental_acceleration)
         IN  [s EXCEPT !.not_combo_counter = 3,
                       !.combo = c1,
                       !.score_incremental_acceleration = a1,
                       !.score_increment = s.score_increment + a1,
                       !.score = s.score + Bonus(s.score_increment,
                                                 SCORE_MULTIPLIERS(lines_cleared))]
    ELSE [s EXCEPT !.not_combo_counter = s.not_combo_counter - 1]

\* faulty variant: not_combo_counter is not taken below 0
ScoreStepCounterFloored(s, lines_cleared) ==
    IF lines_cleared > 0
    THEN LET c1 == s.combo + 1
             a1 == Accelerate(c1, s.score_incremental_acceleration)
             i1 == s.score_increment + a1
         IN  [s EXCEPT !.not_combo_counter = 3,
                       !.combo = c1,
                       !.score_incremental_acceleration = a1,
                       !.score_increment = i1,
                       !.score = s.score + Bonus(i1, SCORE_MULTIPLIERS(lines_cleared))]
    ELSE [s EXCEPT !.not_combo_counter =
                       IF s.not_combo_counter > 0 THEN s.not_combo_counter - 1 ELSE 0]

\* make_move, lines 223-243: the combo/score transition for one committed move.
\* s carries score (flat placement score already added), combo,
\* not_combo_counter, score_increment, score_incremental_acceleration.
ScoreStep(s, lines_cleared) ==
    IF lines_cleared > 0
    THEN LET ncc   == 3
             reset == ncc + lines_cleared <= 1
             c0    == IF reset THEN -1 ELSE s.combo
             i0    == IF reset THEN 0 ELSE s.score_increment
             c1    == c0 + 1
             a1    == Accelerate(c1, s.score_incremental_acceleration)
             i1    == i0 + a1
         IN  [s EXCEPT !.not_combo_counter = ncc,
                       !.combo = c1,
                       !.score_incremental_acceleration = a1,
                       !.score_increment = i1,
                       !.score = s.score + Bonus(i1, SCORE_MULTIPLIERS(lines_cleared))]
    ELSE [s EXCEPT !.not_combo_counter = s.not_combo_counter - 1]

\* faulty variant: every occurrence of the name is dropped
RECURSIVE RemoveEvery(_, _)
RemoveEvery(q, x) ==
    IF q = << >> THEN << >>
    ELSE IF Head(q) = x THEN RemoveEvery(Tail(q), x)
    ELSE <<Head(q)>> \o RemoveEvery(Tail(q), x)

\* list.remove(x): drops the first occurrence
RECURSIVE Remove(_, _)
Remove(q, x) ==
    IF q = << >> THEN << >>
    ELSE IF Head(q) = x THEN Tail(q)
    ELSE <<Head(q)>> \o Remove(Tail(q), x)

(***************************************************************************)
(* make_move on a session record s, up to the dealing.                     *)
(***************************************************************************)
\* faulty variant: the held-piece check comes first and the terminal check last
RejectionHeldFirst(s, piece_name, position) ==
    IF piece_name \notin SeqRange(s.current_pieces)
    THEN "Piece '" \o piece_name \o "' unavailable."
    ELSE IF ~is_valid_move(s.width, s.height, s.board, piece_name, position)
         THEN "Invalid move."
    ELSE IF s.game_over THEN "Game is over."
    ELSE ""

\* lines 199-205: the message of the error returned, or "" when accepted
Rejection(s, piece_name, position) ==
    IF s.game_over THEN "Game is over."
    ELSE IF piece_name \notin SeqRange(s.current_pieces) THEN "Piece '" \o piece_name \o "' unavailable."
    ELSE IF ~is_valid_move(s.width, s.height, s.board, piece_name, position)
         THEN "Invalid move."
    ELSE ""

\* lines 207-245 for an accepted move: the session before dealing, and
\* lines_cleared
Commit(s, piece_name, position) ==
    LET placed == BitOr(s.board, get_piece_mask(s.width, s.height, piece_name, position))
        clr    == MakeMoveClear(s.width, s.height, placed)
        s1     == [s EXCEPT !.board = clr.board,
                            !.score = s.score + bit_count(name_to_pieces[piece_name])]
        s2     == ScoreStep(s1, clr.lines_cleared)
    IN  [session |-> [s2 EXCEPT !.current_pieces = Remove(s.current_pieces, piece_name)],
         lines_cleared |-> clr.lines_cleared]

(***************************************************************************)
(* Dealing.  The outcomes of the random module are the inputs of the       *)
(* dealers: a sample is a triple of distinct list positions, a shuffle a   *)
(* permutation of the list positions.                                      *)
(***************************************************************************)
\* the permutations of 1..n, as sequences
Perms(n) == {p \in [1..n -> 1..n] : \A i, j \in 1..n : p[i] = p[j] => i = j}

\* random.sample(population, 3): 3 distinct positions, in order of selection
Samples(n) == {t \in [1..3 -> 1..n] : \A i, j \in 1..3 : t[i] = t[j] => i = j}

\* the list q after random.shuffle moved q[p[i]] to position i
Shuffled(q, p) == [i \in 1..Len(q) |-> q[p[i]]]

SampleOutcomes == Samples(NumPieces)
CatalogShuffles == Perms(NumPieces)
HandShuffles == Perms(3)

\* _deal_new_pieces, for the sample drawn
_deal_new_pieces(sample) == [i \in 1..3 |-> all_piece_names[sample[i]]]

\* _guaranteed_deal_new_pieces, lines 158-167: the walk over
\* all_pieces_choices from its i-th name on, with scratch board b and
\* current_pieces = got; progressed tells whether this pass of the for loop
\* has appended a name.  A pass that appends nothing leaves b and got as they
\* were, so every later pass repeats it: the while loop never exits
\* (returned = FALSE).
\* faulty variant: the walk takes every name it meets, placeable or not
RECURSIVE GuaranteedWalkUnchecked(_, _, _, _, _, _, _)
GuaranteedWalkUnchecked(w, h, b, choices, i, got, progressed) ==
    IF Len(got) = 3 THEN [current_pieces |-> got, returned |-> TRUE]
    ELSE GuaranteedWalkUnchecked(w, h, b, choices, i + 1, Append(got, choices[i]), TRUE)

RECURSIVE GuaranteedWalk(_, _, _, _, _, _, _)
GuaranteedWalk(w, h, b, choices, i, got, progressed) ==
    IF Len(got) = 3 THEN [current_pieces |-> got, returned |-> TRUE]
    ELSE IF i > Len(choices)
         THEN IF progressed
              THEN GuaranteedWalk(w, h, b, choices, 1, got, FALSE)
              ELSE [current_pieces |-> got, returned |-> FALSE]
    ELSE LET name == choices[i]
             placable_position == _can_place_piece(w, h, b, name)
         IN  IF placable_position # << >>
             THEN GuaranteedWalk(w, h,
                      TryMovePlaced(w, h, b, name, placable_position).board,
                      choices, i + 1, Append(got, name), TRUE)
             ELSE GuaranteedWalk(w, h, b, choices, i + 1, got, progressed)

\* _guaranteed_deal_new_pieces on live board b: shuffle1 is the outcome of
\* random.shuffle(all_pieces_choices), shuffle2 of random.shuffle(current_pieces)
_guaranteed_deal_new_pieces(w, h, b, shuffle1, shuffle2) ==
    LET walk == GuaranteedWalk(w, h, b, Shuffled(all_piece_names, shuffle1), 1, << >>, FALSE)
    IN  IF walk.returned
        THEN [current_pieces |-> Shuffled(walk.current_pieces, shuffle2), returned |-> TRUE]
        ELSE walk

\* what _guaranteed_deal_new_pieces can leave, over every outcome of its two shuffles
GuaranteedDeals(w, h, b) ==
    {_guaranteed_deal_new_pieces(w, h, b, shuffle1, shuffle2) :
        shuffle1 \in CatalogShuffles, shuffle2 \in HandShuffles}

(***************************************************************************)
(* The session.                                                            *)
(***************************************************************************)
VARIABLES
    width, height,                   \* self.width, self.height
    is_guranteed_valid_moves,        \* constructor flag
    board,                           \* self.board
    score,                           \* self.score
    combo,                           \* self.combo
    not_combo_counter,               \* self.not_combo_counter
    score_increment,                 \* self.score_increment, in 10^-5
    score_incremental_acceleration,  \* self.score_incremental_acceleration, in 10^-5
    current_pieces,                  \* self.current_pieces
    game_over,                       \* self.game_over
    result,                          \* what the last make_move / try_move call returned
    moves,                           \* number of accepted make_move calls so far
    pc,                              \* "ready", or "dealing" while the dealer's loop spins
    rng,                             \* the random module: seed set, draws made since
    stream,                          \* what the generator produced since seeding
    twin,                            \* a second session of the process, if any
    pending,                         \* calls made on the first session, not yet on the second
    schedule,                        \* how the two sessions are run
    solution,                        \* Solver.solution, the cached sequence
    ui_state,                        \* self.ui_state of the visualizer
    piece_tray_rects,                \* self.piece_tray_rects: pairs <<piece name, tray slot>>
    drag_info,                       \* self.drag_info
    animation,                       \* self.animation
    events,                          \* pygame's event queue
    frame,                           \* the call of run()'s loop body that comes next
    drag_moves                       \* make_move calls issued since the last pickup

session_vars == <<board, score, combo, not_combo_counter, score_increment,
                  score_incremental_acceleration, current_pieces, game_over>>

vars == <<width, height, is_guranteed_valid_moves, board, score, combo,
          not_combo_counter, score_increment, score_incremental_acceleration,
          current_pieces, game_over, result, moves, pc,
          rng, stream, twin, pending, schedule, solution,
          ui_state, piece_tray_rects, drag_info, animation, events, frame, drag_moves>>

ui_vars == <<ui_state, piece_tray_rects, drag_info, animation, events, frame, drag_moves>>

process_vars == <<rng, stream, twin, pending, schedule, solution, ui_vars>>

\* self.drag_info = {} and self.animation = {}
NoDrag == [name |-> ""]

NoAnimation == [running |-> FALSE, target_grid_pos |-> <<0, 0>>, is_valid |-> FALSE]

\* the visualizer's fields as its __init__ leaves them: no tray drawn, no event
WindowClosed ==
    /\ ui_state = "IDLE"
    /\ piece_tray_rects = {}
    /\ drag_info = NoDrag
    /\ animation = NoAnimation
    /\ events = << >>
    /\ frame = "handle_input"
    /\ drag_moves = 0

\* the session as a record
Self ==
    [width |-> width, height |-> height, board |-> board, score |-> score,
     combo |-> combo, not_combo_counter |-> not_combo_counter,
     score_increment |-> score_increment,
     score_incremental_acceleration |-> score_incremental_acceleration,
     current_pieces |-> current_pieces, game_over |-> game_over]

NoResult ==
    [op |-> "none", status |-> "none", message |-> "", board |-> 0,
     score |-> 0, lines_cleared |-> 0, game_over |-> FALSE]

\* a process that runs one session: the generator is not followed
OneSession ==
    /\ rng = [seed |-> 0, draws |-> 0]
    /\ stream = << >>
    /\ twin = << >>
    /\ pending = << >>
    /\ schedule = "single"
    /\ solution = << >>
    /\ WindowClosed

\* __init__: fields at their initial values, then self._deal_new_pieces()
Init ==
    /\ \E board_size \in BoardSizes : width = board_size[1] /\ height = board_size[2]
    /\ is_guranteed_valid_moves \in BOOLEAN
    /\ board = 0
    /\ score = 0
    /\ combo = -1
    /\ not_combo_counter = 3
    /\ score_increment = 0
    /\ score_incremental_acceleration = 0
    /\ game_over = FALSE
    /\ \E sample \in SampleOutcomes : current_pieces = _deal_new_pieces(sample)
    /\ result = NoResult
    /\ moves = 0
    /\ pc = "ready"
    /\ OneSession

\* the positions a caller may pass: the board and one step outside it
CallPositions == {<<x, y>> : x \in (-1)..width, y \in (-1)..height}

\* faulty variant: line 208 hoisted above the checks: the flat placement score is
\* added before the call is rejected
MakeMoveRejectedAfterScoring(piece_name, position) ==
    /\ pc = "ready"
    /\ Rejection(Self, piece_name, position) # ""
    /\ result' = [NoResult EXCEPT !.op = "make_move", !.status = "error",
                                  !.message = Rejection(Self, piece_name, position)]
    /\ score' = score + bit_count(name_to_pieces[piece_name])
    /\ UNCHANGED <<width, height, is_guranteed_valid_moves, board, combo,
                   not_combo_counter, score_increment,
                   score_incremental_acceleration, current_pieces, game_over,
                   moves, pc>>

\* faulty variant: line 245 hoisted above the checks: a held piece is taken out of
\* the hand before the call is rejected
MakeMoveRejectedAfterRemoval(piece_name, position) ==
    /\ pc = "ready"
    /\ Rejection(Self, piece_name, position) # ""
    /\ result' = [NoResult EXCEPT !.op = "make_move", !.status = "error",
                                  !.message = Rejection(Self, piece_name, position)]
    /\ current_pieces' = Remove(current_pieces, piece_name)
    /\ UNCHANGED <<width, height, is_guranteed_valid_moves, board, score, combo,
                   not_combo_counter, score_increment,
                   score_incremental_acceleration, game_over, moves, pc>>

\* make_move returning an error: lines 199-205
MakeMoveRejected(piece_name, position) ==
    /\ pc = "ready"
    /\ Rejection(Self, piece_name, position) # ""
    /\ result' = [NoResult EXCEPT !.op = "make_move", !.status = "error",
                                  !.message = Rejection(Self, piece_name, position)]
    /\ UNCHANGED <<width, height, is_guranteed_valid_moves, session_vars, moves, pc>>

\* lines 246-261, given the session after line 245 and the hand dealt (if any)
Finish(s, lines_cleared) ==
    LET over == NoPossibleMoves(s.width, s.height, s.board, s.current_pieces) IN
    /\ board' = s.board
    /\ score' = s.score
    /\ combo' = s.combo
    /\ not_combo_counter' = s.not_combo_counter
    /\ score_increment' = s.score_increment
    /\ score_incremental_acceleration' = s.score_incremental_acceleration
    /\ current_pieces' = s.current_pieces
    /\ game_over' = over
    /\ result' = [op |-> "make_move", status |-> "success", message |-> "",
                  board |-> s.board, score |-> s.score,
                  lines_cleared |-> lines_cleared,
                  game_over |-> over]
    /\ pc' = "ready"

\* the dealer's while loop never exits: make_move does not return
Spin(s) ==
    /\ board' = s.board
    /\ score' = s.score
    /\ combo' = s.combo
    /\ not_combo_counter' = s.not_combo_counter
    /\ score_increment' = s.score_increment
    /\ score_incremental_acceleration' = s.score_incremental_acceleration
    /\ current_pieces' = s.current_pieces
    /\ pc' = "dealing"
    /\ UNCHANGED <<game_over, result>>

\* faulty variant: the empty hand is refilled by _deal_new_pieces whatever
\* is_guranteed_valid_moves says
AcceptedDealsUniformly(piece_name, position) ==
    /\ pc = "ready"
    /\ Rejection(Self, piece_name, position) = ""
    /\ LET c == Commit(Self, piece_name, position)
       IN  IF c.session.current_pieces # << >>
           THEN Finish(c.session, c.lines_cleared)
           ELSE \E sample \in SampleOutcomes :
                  Finish([c.session EXCEPT !.current_pieces = _deal_new_pieces(sample)],
                         c.lines_cleared)
    /\ moves' = moves + 1
    /\ UNCHANGED <<width, height, is_guranteed_valid_moves>>

\* make_move accepted: lines 207-261
Accepted(piece_name, position) ==
    /\ pc = "ready"
    /\ Rejection(Self, piece_name, position) = ""
    /\ LET c == Commit(Self, piece_name, position)
       IN  IF c.session.current_pieces # << >>
           THEN Finish(c.session, c.lines_cleared)
           ELSE IF is_guranteed_valid_moves
           THEN \E d \in GuaranteedDeals(width, height, c.session.board) :
                  LET s == [c.session EXCEPT !.current_pieces = d.current_pieces]
                  IN  IF d.returned THEN Finish(s, c.lines_cleared) ELSE Spin(s)
           ELSE \E sample \in SampleOutcomes :
                  Finish([c.session EXCEPT !.current_pieces = _deal_new_pieces(sample)],
                         c.lines_cleared)
    /\ moves' = moves + 1
    /\ UNCHANGED <<width, height, is_guranteed_valid_moves>>

\* the model follows a session for MaxMoves accepted moves
MakeMoveAccepted(piece_name, position) ==
    /\ moves < MaxMoves
    /\ Accepted(piece_name, position)

MakeMove ==
    /\ \E piece_name \in PieceNames, position \in CallPositions :
          \/ MakeMoveRejected(piece_name, position)
          \/ MakeMoveAccepted(piece_name, position)
    /\ UNCHANGED process_vars

\* faulty variant: game_over is worked out on the board try_move returns
try_moveOverOnReturnedBoard(s, b, piece_name, position) ==
    IF ~is_valid_move(s.width, s.height, b, piece_name, position)
    THEN [NoResult EXCEPT !.op = "try_move", !.status = "error",
                          !.message = "Invalid move."]
    ELSE LET t == TryMovePlaced(s.width, s.height, b, piece_name, position)
         IN  [NoResult EXCEPT !.op = "try_move", !.status = "success",
                              !.board = t.board,
                              !.lines_cleared = t.lines_cleared,
                              !.game_over = NoPossibleMoves(s.width, s.height,
                                                            t.board, s.current_pieces)]

\* try_move, lines 263-294, called on session s with board value b
try_move(s, b, piece_name, position) ==
    IF ~is_valid_move(s.width, s.height, b, piece_name, position)
    THEN [NoResult EXCEPT !.op = "try_move", !.status = "error",
                          !.message = "Invalid move."]
    ELSE LET t == TryMovePlaced(s.width, s.height, b, piece_name, position)
         IN  [NoResult EXCEPT !.op = "try_move", !.status = "success",
                              !.board = t.board,
                              !.lines_cleared = t.lines_cleared,
                              !.game_over = NoPossibleMoves(s.width, s.height,
                                                            s.board, s.current_pieces)]

\* the board values a caller holds: the live board, or the board the
\* previous try_move returned (how the dealer and the solver chain calls)
HeldBoards ==
    {board} \cup (IF result.op = "try_move" /\ result.status = "success"
                  THEN {result.board} ELSE {})

\* a caller runs try_move; the model does so on sessions of at most
\* MaxTryMoves accepted moves
TryMove ==
    /\ pc = "ready"
    /\ moves <= MaxTryMoves
    /\ \E b \in HeldBoards, piece_name \in PieceNames, position \in CallPositions :
          result' = try_move(Self, b, piece_name, position)
    /\ UNCHANGED <<width, height, is_guranteed_valid_moves, session_vars, moves, pc>>
    /\ UNCHANGED process_vars

\* _guaranteed_deal_new_pieces run on its own, on the session as
\* make_move leaves it at line 246 with the hand empty
GuaranteedDeal ==
    /\ pc = "ready"
    /\ current_pieces = << >>
    /\ \E d \in GuaranteedDeals(width, height, board) :
          /\ current_pieces' = d.current_pieces
          /\ pc' = IF d.returned THEN "ready" ELSE "dealing"
    /\ result' = [NoResult EXCEPT !.op = "_guaranteed_deal_new_pieces"]
    /\ UNCHANGED <<width, height, is_guranteed_valid_moves, board, score, combo,
                   not_combo_counter, score_increment,
                   score_incremental_acceleration, game_over, moves>>
    /\ UNCHANGED process_vars

\* every board value of a size: bits 0 .. width*height-1
Boards(w, h) == 0..((2 ^ (w * h)) - 1)

\* a session with guaranteed dealing, any board, the hand just emptied
InitDeal ==
    /\ \E board_size \in WideBoardSizes : width = board_size[1] /\ height = board_size[2]
    /\ is_guranteed_valid_moves = TRUE
    /\ board \in Boards(width, height)
    /\ score = 0
    /\ combo = -1
    /\ not_combo_counter = 3
    /\ score_increment = 0
    /\ score_incremental_acceleration = 0
    /\ game_over = FALSE
    /\ current_pieces = << >>
    /\ result = NoResult
    /\ moves = 0
    /\ pc = "ready"
    /\ OneSession

SpecDeal == InitDeal /\ [][GuaranteedDeal]_vars

(***************************************************************************)
(* Two sessions in one process.  Both draw from the module-level generator *)
(* of random, which __init__ re-seeds (line 33) when a seed is given.  The *)
(* generator is deterministic: after random.seed(seed) its n-th output is  *)
(* the same every time.  stream records the outputs produced since the     *)
(* seeding for as long as a second seeding can still replay them.          *)
(***************************************************************************)
\* the board sizes of the two-session runs
TwinBoardSizes == {<<2, 2>>}
\* the seeds passed to __init__
Seeds == {0}

\* what one deal takes from the generator: a sample for _deal_new_pieces,
\* two shuffles for _guaranteed_deal_new_pieces
SampleDraws == {[sample |-> t] : t \in SampleOutcomes}
ShuffleDraws == {[shuffle1 |-> p, shuffle2 |-> q] : p \in CatalogShuffles, q \in HandShuffles}

\* the outputs the generator can give at its position: the recorded one if
\* this position was reached before under the same seed
Draws(guaranteed) ==
    IF rng.draws < Len(stream) THEN {stream[rng.draws + 1]}
    ELSE IF guaranteed THEN ShuffleDraws ELSE SampleDraws

\* the generator after giving output o
Drawn(o) ==
    /\ rng' = [rng EXCEPT !.draws = @ + 1]
    /\ stream' = IF rng.draws < Len(stream) \/ schedule # "sequential" \/ twin # << >>
                 THEN stream ELSE Append(stream, o)

\* lines 246-250 on session record s with generator output o
Dealt(s, o) ==
    IF is_guranteed_valid_moves
    THEN _guaranteed_deal_new_pieces(s.width, s.height, s.board, o.shuffle1, o.shuffle2)
    ELSE [current_pieces |-> _deal_new_pieces(o.sample), returned |-> TRUE]

\* __init__ lines 8-35 as a session record, the hand from generator output o
NewSession(w, h, o) ==
    [width |-> w, height |-> h, board |-> 0, score |-> 0, combo |-> -1,
     not_combo_counter |-> 3, score_increment |-> 0,
     score_incremental_acceleration |-> 0,
     current_pieces |-> _deal_new_pieces(o.sample), game_over |-> FALSE]

\* lines 252-253 on a session record
Settled(s) ==
    [s EXCEPT !.game_over = NoPossibleMoves(s.width, s.height, s.board, s.current_pieces)]

\* both sessions constructed with the same seed: one after the other
\* before any move ("alternated"), or the second one later ("sequential")
InitTwo ==
    /\ \E board_size \in TwinBoardSizes : width = board_size[1] /\ height = board_size[2]
    /\ is_guranteed_valid_moves \in BOOLEAN
    /\ schedule \in {"sequential", "alternated"}
    /\ board = 0
    /\ score = 0
    /\ combo = -1
    /\ not_combo_counter = 3
    /\ score_increment = 0
    /\ score_incremental_acceleration = 0
    /\ game_over = FALSE
    /\ \E seed \in Seeds, o \in SampleDraws :
          /\ current_pieces = _deal_new_pieces(o.sample)
          /\ rng = [seed |-> seed, draws |-> 1]
          /\ stream = IF schedule = "sequential" THEN <<o>> ELSE << >>
          /\ twin = IF schedule = "sequential" THEN << >>
                    ELSE <<NewSession(width, height, o)>>
    /\ pending = << >>
    /\ solution = << >>
    /\ WindowClosed
    /\ result = NoResult
    /\ moves = 0
    /\ pc = "ready"

\* make_move on the first session, by a player who puts a held piece at
\* the first position where it fits
PlayFirst ==
    /\ pc = "ready"
    /\ moves < MaxMoves
    /\ IF schedule = "alternated" THEN pending = << >> ELSE twin = << >>
    /\ \E piece_name \in SeqRange(current_pieces) :
       \E position \in {_can_place_piece(width, height, board, piece_name)} \ {<< >>} :
          /\ Rejection(Self, piece_name, position) = ""
          /\ pending' = Append(pending, <<piece_name, position>>)
          /\ LET c == Commit(Self, piece_name, position)
             IN  IF c.session.current_pieces # << >>
                 THEN Finish(c.session, c.lines_cleared) /\ UNCHANGED <<rng, stream>>
                 ELSE \E o \in Draws(is_guranteed_valid_moves) :
                        /\ Drawn(o)
                        /\ LET d == Dealt(c.session, o)
                               s == [c.session EXCEPT !.current_pieces = d.current_pieces]
                           IN  IF d.returned THEN Finish(s, c.lines_cleared) ELSE Spin(s)
    /\ moves' = moves + 1
    /\ UNCHANGED <<width, height, is_guranteed_valid_moves, twin, schedule, solution, ui_vars>>

\* the second session is constructed with the same arguments after the
\* first one has been played to its end (no move left, or the model's
\* bound on moves): random.seed(seed) restarts the generator
ConstructTwin ==
    /\ pc = "ready"
    /\ schedule = "sequential"
    /\ twin = << >>
    /\ moves = MaxMoves \/ NoPossibleMoves(width, height, board, current_pieces)
    /\ twin' = <<NewSession(width, height, stream[1])>>
    /\ rng' = [rng EXCEPT !.draws = 1]
    /\ UNCHANGED <<width, height, is_guranteed_valid_moves, session_vars, result,
                   moves, pc, stream, pending, schedule, solution, ui_vars>>

\* make_move on the second session with the call the first session got
PlaySecond ==
    /\ pc = "ready"
    /\ twin # << >>
    /\ pending # << >>
    /\ LET s == twin[1]
           piece_name == Head(pending)[1]
           position == Head(pending)[2]
       IN  IF Rejection(s, piece_name, position) # ""
           THEN UNCHANGED <<twin, rng, stream, pc>>
           ELSE LET c == Commit(s, piece_name, position)
                IN  IF c.session.current_pieces # << >>
                    THEN /\ twin' = <<Settled(c.session)>>
                         /\ UNCHANGED <<rng, stream, pc>>
                    ELSE \E o \in Draws(is_guranteed_valid_moves) :
                           /\ Drawn(o)
                           /\ LET d == Dealt(c.session, o)
                                  t == [c.session EXCEPT !.current_pieces = d.current_pieces]
                              IN  /\ twin' = <<IF d.returned THEN Settled(t) ELSE t>>
                                  /\ pc' = IF d.returned THEN "ready" ELSE "dealing"
    /\ pending' = Tail(pending)
    /\ UNCHANGED <<width, height, is_guranteed_valid_moves, session_vars, result,
                   moves, schedule, solution, ui_vars>>

NextTwo == PlayFirst \/ ConstructTwin \/ PlaySecond

SpecTwo == InitTwo /\ [][NextTwo]_vars

(***************************************************************************)
(* Placement on its own: is_valid_move, then line 207 (the mask OR-ed into *)
(* the board, no line clearing), from any board.                           *)
(***************************************************************************)
\* is_valid_move holds and the placement mask is OR-ed into the board
Place ==
    /\ pc = "ready"
    /\ \E piece_name \in PieceNames, position \in CallPositions :
          /\ is_valid_move(width, height, board, piece_name, position)
          /\ board' = BitOr(board, get_piece_mask(width, height, piece_name, position))
          /\ result' = [op |-> "place", piece_name |-> piece_name,
                        position |-> position, board |-> board]
    /\ UNCHANGED <<width, height, is_guranteed_valid_moves, score, combo,
                   not_combo_counter, score_increment,
                   score_incremental_acceleration, current_pieces, game_over,
                   moves, pc>>
    /\ UNCHANGED process_vars

SpecPlace == InitDeal /\ [][Place]_vars

(***************************************************************************)
(* The row-filling run: an empty board 8 wide, the hand set to four line4h *)
(* pieces as a test does (current_pieces is a plain attribute), and        *)
(* make_move called with line4h at any position.  The dealer runs once,    *)
(* when the fourth piece leaves the hand; the session deals uniformly.     *)
(***************************************************************************)
InitRow ==
    /\ \E board_size \in RowBoardSizes : width = board_size[1] /\ height = board_size[2]
    /\ is_guranteed_valid_moves = FALSE
    /\ board = 0
    /\ score = 0
    /\ combo = -1
    /\ not_combo_counter = 3
    /\ score_increment = 0
    /\ score_incremental_acceleration = 0
    /\ game_over = FALSE
    /\ current_pieces = <<"line4h", "line4h", "line4h", "line4h">>
    /\ result = NoResult
    /\ moves = 0
    /\ pc = "ready"
    /\ OneSession

RowMove ==
    /\ \E position \in CallPositions :
          \/ MakeMoveRejected("line4h", position)
          \/ moves < RowMoves /\ Accepted("line4h", position)
    /\ UNCHANGED process_vars

SpecRow == InitRow /\ [][RowMove]_vars

(***************************************************************************)
(* Runs long enough for a line clear, three placements that clear nothing, *)
(* and another line clear: a board 3 or 4 wide and 2 high, the hand set to *)
(* GapMoves small pieces as a test does, uniform dealing once it is empty. *)
(***************************************************************************)
\* sq1 pieces and one line2v
GapHands == {[i \in 1..GapMoves |-> IF i < GapMoves THEN "sq1" ELSE "line2v"]}

InitGap ==
    /\ \E board_size \in GapBoardSizes : width = board_size[1] /\ height = board_size[2]
    /\ is_guranteed_valid_moves = FALSE
    /\ board = 0
    /\ score = 0
    /\ combo = -1
    /\ not_combo_counter = 3
    /\ score_increment = 0
    /\ score_incremental_acceleration = 0
    /\ game_over = FALSE
    /\ current_pieces \in GapHands
    /\ result = NoResult
    /\ moves = 0
    /\ pc = "ready"
    /\ OneSession

\* the cells of the board; the gap runs pass these as positions (a line2v in
\* the bottom row is still out of bounds)
GapPositions == (0..(width - 1)) \X (0..(height - 1))

GapMove ==
    /\ \E piece_name \in PieceNames, position \in GapPositions :
          \/ MakeMoveRejected(piece_name, position)
          \/ moves < GapMoves /\ Accepted(piece_name, position)
    /\ UNCHANGED process_vars

SpecGap == InitGap /\ [][GapMove]_vars

(***************************************************************************)
(* Long combo runs: a board 2 wide and 1 or 2 high, the hand set as a test *)
(* does to LongMoves pieces, up to two sq1 and the rest line2h.  A line2h  *)
(* fills a row of these boards, so it always clears; a sq1 clears or not.  *)
(***************************************************************************)
LongHands ==
    {[i \in 1..LongMoves |-> IF i <= k THEN "sq1" ELSE "line2h"] : k \in 0..2}

InitLong ==
    /\ \E board_size \in LongBoardSizes : width = board_size[1] /\ height = board_size[2]
    /\ is_guranteed_valid_moves = FALSE
    /\ board = 0
    /\ score = 0
    /\ combo = -1
    /\ not_combo_counter = 3
    /\ score_increment = 0
    /\ score_incremental_acceleration = 0
    /\ game_over = FALSE
    /\ current_pieces \in LongHands
    /\ result = NoResult
    /\ moves = 0
    /\ pc = "ready"
    /\ OneSession

LongMove ==
    /\ \E piece_name \in PieceNames, position \in CallPositions :
          \/ MakeMoveRejected(piece_name, position)
          \/ moves < LongMoves /\ Accepted(piece_name, position)
    /\ UNCHANGED process_vars

SpecLong == InitLong /\ [][LongMove]_vars

(***************************************************************************)
(* The solver (src/bots/simple.py) on the session, driven as the bot of    *)
(* run_bot_play drives it: solve(), then make_move with the move returned. *)
(***************************************************************************)
\* pieces.pop(i), i counted from 1
RemoveAt(q, i) == SubSeq(q, 1, i - 1) \o SubSeq(q, i + 1, Len(q))

\* faulty variant: a piece whose first legal position leads nowhere is given
\* up; its other positions are not tried
RECURSIVE RecurseFirstPositionOnly(_, _, _, _, _, _)
RecurseFirstPositionOnly(w, h, b, pieces, i, k) ==
    IF pieces = << >> THEN [found |-> TRUE, sequence |-> << >>]
    ELSE IF i > Len(pieces) THEN [found |-> FALSE, sequence |-> << >>]
    ELSE IF k > w * h THEN RecurseFirstPositionOnly(w, h, b, pieces, i + 1, 1)
    ELSE IF ~is_valid_move(w, h, b, pieces[i], RowMajor(w, h)[k])
         THEN RecurseFirstPositionOnly(w, h, b, pieces, i, k + 1)
    ELSE LET next_board == try_move([width |-> w, height |-> h, board |-> b,
                                     current_pieces |-> pieces],
                                    b, pieces[i], RowMajor(w, h)[k]).board
             rest == RecurseFirstPositionOnly(w, h, next_board, RemoveAt(pieces, i), 1, 1)
         IN  IF rest.found
             THEN [found |-> TRUE,
                   sequence |-> <<<<pieces[i], RowMajor(w, h)[k]>>>> \o rest.sequence]
             ELSE RecurseFirstPositionOnly(w, h, b, pieces, i + 1, 1)

\* next(recurse(board, pieces)), the scan resumed at held-list index i and
\* scan position k: the first sequence the generator yields, or none
RECURSIVE Recurse(_, _, _, _, _, _)
Recurse(w, h, b, pieces, i, k) ==
    IF pieces = << >> THEN [found |-> TRUE, sequence |-> << >>]
    ELSE IF i > Len(pieces) THEN [found |-> FALSE, sequence |-> << >>]
    ELSE IF k > w * h THEN Recurse(w, h, b, pieces, i + 1, 1)
    ELSE IF ~is_valid_move(w, h, b, pieces[i], RowMajor(w, h)[k])
         THEN Recurse(w, h, b, pieces, i, k + 1)
    ELSE LET next_board == try_move([width |-> w, height |-> h, board |-> b,
                                     current_pieces |-> pieces],
                                    b, pieces[i], RowMajor(w, h)[k]).board
             rest == Recurse(w, h, next_board, RemoveAt(pieces, i), 1, 1)
         IN  IF rest.found
             THEN [found |-> TRUE,
                   sequence |-> <<<<pieces[i], RowMajor(w, h)[k]>>>> \o rest.sequence]
             ELSE Recurse(w, h, b, pieces, i, k + 1)

\* Solver.get_solution, lines 13-37: found = FALSE stands for None
get_solution(s) == Recurse(s.width, s.height, s.board, s.current_pieces, 1, 1)

\* self.solution after get_solution returned None
None == <<<<"None", <<-1, -1>>>>>>

\* `if self.solution:` - a list that is not empty
Cached == solution # << >> /\ solution # None

SolveResult(status, message, move) ==
    [op |-> "solve", status |-> status, message |-> message, move |-> move]

\* faulty variant: the search runs on every call
SolveAlwaysSearches ==
    /\ pc = "ready"
    /\ LET g == get_solution(Self)
       IN  IF g.found
           THEN /\ result' = SolveResult("returned", "", Head(g.sequence))
                /\ solution' = Tail(g.sequence)
           ELSE /\ result' = SolveResult("raised",
                        "AttributeError: 'NoneType' object has no attribute 'pop'", << >>)
                /\ solution' = None
    /\ UNCHANGED <<width, height, is_guranteed_valid_moves, session_vars, moves, pc,
                   rng, stream, twin, pending, schedule, ui_vars>>

\* faulty variant: try_move stores the board it computed in the session
TryMoveAnyWritesBoard ==
    /\ pc = "ready"
    /\ moves < MaxTryMoves
    /\ \E b \in Boards(width, height), piece_name \in PieceNames,
          position \in CallPositions :
          /\ result' = try_move(Self, b, piece_name, position)
          /\ board' = IF result'.status = "success" THEN result'.board ELSE board
    /\ UNCHANGED <<width, height, is_guranteed_valid_moves, score, combo,
                   not_combo_counter, score_increment, score_incremental_acceleration,
                   current_pieces, game_over, moves, pc>>
    /\ UNCHANGED process_vars

\* faulty variant: a cached move is returned but stays in the cache
SolveKeepsHead ==
    /\ pc = "ready"
    /\ IF Cached
       THEN /\ result' = SolveResult("returned", "", Head(solution))
            /\ solution' = solution
       ELSE LET g == get_solution(Self)
            IN  IF g.found
                THEN /\ result' = SolveResult("returned", "", Head(g.sequence))
                     /\ solution' = Tail(g.sequence)
                ELSE /\ result' = SolveResult("raised",
                             "AttributeError: 'NoneType' object has no attribute 'pop'", << >>)
                     /\ solution' = None
    /\ UNCHANGED <<width, height, is_guranteed_valid_moves, session_vars, moves, pc,
                   rng, stream, twin, pending, schedule, ui_vars>>

\* Solver.solve, lines 39-46
Solve ==
    /\ pc = "ready"
    /\ IF Cached
       THEN /\ result' = SolveResult("returned", "", Head(solution))
            /\ solution' = Tail(solution)
       ELSE LET g == get_solution(Self)
            IN  IF g.found
                THEN /\ result' = SolveResult("returned", "", Head(g.sequence))
                     /\ solution' = Tail(g.sequence)
                ELSE /\ result' = SolveResult("raised",
                             "AttributeError: 'NoneType' object has no attribute 'pop'", << >>)
                     /\ solution' = None
    /\ UNCHANGED <<width, height, is_guranteed_valid_moves, session_vars, moves, pc,
                   rng, stream, twin, pending, schedule, ui_vars>>

\* piece, position = bot(self); self.make_move(piece, position)
PlaySolved ==
    /\ result.op = "solve" /\ result.status = "returned"
    /\ \/ MakeMoveRejected(result.move[1], result.move[2])
       \/ MakeMoveAccepted(result.move[1], result.move[2])
    /\ UNCHANGED process_vars

\* try_move called with any board value
TryMoveAny ==
    /\ pc = "ready"
    /\ moves < MaxTryMoves
    /\ \E b \in Boards(width, height), piece_name \in PieceNames,
          position \in CallPositions :
          result' = try_move(Self, b, piece_name, position)
    /\ UNCHANGED <<width, height, is_guranteed_valid_moves, session_vars, moves, pc>>
    /\ UNCHANGED process_vars

NextBot == Solve \/ PlaySolved \/ TryMoveAny

SpecBot == Init /\ [][NextBot]_vars

(***************************************************************************)
(* The bot loop of run_bot_play on a session with guaranteed dealing whose *)
(* first hand can be placed in full: each round asks the solver for a move *)
(* and passes it to make_move.                                             *)
(***************************************************************************)
InitBotPlay ==
    /\ \E board_size \in TwinBoardSizes : width = board_size[1] /\ height = board_size[2]
    /\ is_guranteed_valid_moves = TRUE
    /\ board = 0
    /\ score = 0
    /\ combo = -1
    /\ not_combo_counter = 3
    /\ score_increment = 0
    /\ score_incremental_acceleration = 0
    /\ game_over = FALSE
    /\ \E sample \in SampleOutcomes : current_pieces = _deal_new_pieces(sample)
    /\ Recurse(width, height, board, current_pieces, 1, 1).found
    /\ result = NoResult
    /\ moves = 0
    /\ pc = "ready"
    /\ OneSession

\* piece, position = bot(self)
BotSolve ==
    /\ result.op # "solve"
    /\ moves < BotMoves
    /\ Solve

\* self.make_move(piece, position)
BotPlay ==
    /\ result.op = "solve" /\ result.status = "returned"
    /\ \/ MakeMoveRejected(result.move[1], result.move[2])
       \/ Accepted(result.move[1], result.move[2])
    /\ UNCHANGED process_vars

SpecBotPlay == InitBotPlay /\ [][BotSolve \/ BotPlay]_vars

(***************************************************************************)
(* Manual play: the loop body of run(), one call at a time.  A frame is    *)
(* handle_input, update, draw_pieces_in_tray and the second call of        *)
(* _update_piece_animations; the player's mouse events enter pygame's      *)
(* queue at any moment.  An animation's progress at a call is an input.    *)
(***************************************************************************)
ManualMoves == 3
MaxEvents == 1

Window ==
    [ui_state |-> ui_state, piece_tray_rects |-> piece_tray_rects,
     drag_info |-> drag_info, animation |-> animation]

\* where a drag is released: on the board, or past its right or lower edge
ReleasePositions == (0..width) \X (0..height)

\* a press on a tray slot, or a release whose grid_pos lines 189-193 compute
MouseEvents ==
    {[type |-> "MOUSEBUTTONDOWN", slot |-> i, grid_pos |-> <<0, 0>>] : i \in 1..3}
       \cup {[type |-> "MOUSEBUTTONUP", slot |-> 0, grid_pos |-> p] : p \in ReleasePositions}

\* draw_pieces_in_tray: the dict keeps, per name, the last slot drawn
draw_pieces_in_tray(u, hand) ==
    LET shown == {i \in 1..Len(hand) :
                     ~(u.ui_state # "IDLE" /\ u.drag_info.name = hand[i])}
    IN  {<<hand[i], i>> : i \in {j \in shown : \A k \in shown : hand[k] = hand[j] => k <= j}}

\* one round of handle_input's loop: lines 174-206
HandleEvent(s, u, event) ==
    IF s.game_over THEN u
    ELSE IF event.type = "MOUSEBUTTONDOWN" /\ u.ui_state = "IDLE"
    THEN LET hit == {r \in u.piece_tray_rects : r[2] = event.slot}
         IN  IF hit = {} THEN u
             ELSE [u EXCEPT !.ui_state = "ANIMATING_PICKUP",
                            !.drag_info = [name |-> (CHOOSE r \in hit : TRUE)[1]],
                            !.animation = [NoAnimation EXCEPT !.running = TRUE]]
    ELSE IF event.type = "MOUSEBUTTONUP" /\ u.ui_state = "DRAGGING"
    THEN [u EXCEPT !.ui_state = "ANIMATING_DROP",
                   !.animation = [running |-> TRUE,
                                  target_grid_pos |-> event.grid_pos,
                                  is_valid |-> is_valid_move(s.width, s.height, s.board,
                                                             u.drag_info.name, event.grid_pos)]]
    ELSE u

RECURSIVE HandleEvents(_, _, _)
HandleEvents(s, u, queue) ==
    IF queue = << >> THEN u
    ELSE HandleEvents(s, HandleEvent(s, u, Head(queue)), Tail(queue))

\* handle_input: nothing is read from the queue during an animation
handle_input(s, u, queue) ==
    IF u.ui_state \notin {"IDLE", "DRAGGING"} THEN u ELSE HandleEvents(s, u, queue)

\* faulty variant: the finished drop leaves ui_state, animation and
\* drag_info as they are
DropFinishedKeepsDrag(u) == u

\* lines 257-259, the end of a finished drop
DropFinished(u) ==
    [u EXCEPT !.ui_state = "IDLE", !.animation = NoAnimation, !.drag_info = NoDrag]

\* the player presses or releases the mouse button
MouseEvent ==
    /\ pc = "ready"
    /\ moves < ManualMoves
    /\ Len(events) < MaxEvents
    /\ \E event \in MouseEvents : events' = Append(events, event)
    /\ UNCHANGED <<width, height, is_guranteed_valid_moves, session_vars, result, moves, pc,
                   rng, stream, twin, pending, schedule, solution,
                   ui_state, piece_tray_rects, drag_info, animation, frame, drag_moves>>

\* self.handle_input()
HandleInput ==
    /\ pc = "ready"
    /\ frame = "handle_input"
    /\ LET u == handle_input(Self, Window, events)
       IN  /\ ui_state' = u.ui_state
           /\ drag_info' = u.drag_info
           /\ animation' = u.animation
           /\ drag_moves' = IF u.ui_state = "ANIMATING_PICKUP" THEN 0 ELSE drag_moves
    /\ events' = IF ui_state \in {"IDLE", "DRAGGING"} THEN << >> ELSE events
    /\ frame' = "update"
    /\ UNCHANGED <<width, height, is_guranteed_valid_moves, session_vars, result, moves, pc,
                   rng, stream, twin, pending, schedule, solution, piece_tray_rects>>

\* _update_piece_animations, given whether progress >= 1.0 at this call
UpdatePieceAnimations(finished) ==
    IF ~animation.running \/ ~finished \/ ui_state \notin {"ANIMATING_PICKUP", "ANIMATING_DROP"}
    THEN UNCHANGED <<width, height, is_guranteed_valid_moves, session_vars, result, moves, pc,
                     ui_state, drag_info, animation, drag_moves>>
    ELSE IF ui_state = "ANIMATING_PICKUP"
    THEN /\ ui_state' = "DRAGGING"
         /\ animation' = NoAnimation
         /\ UNCHANGED <<width, height, is_guranteed_valid_moves, session_vars, result,
                        moves, pc, drag_info, drag_moves>>
    ELSE /\ IF animation.is_valid
            THEN /\ \/ MakeMoveRejected(drag_info.name, animation.target_grid_pos)
                    \/ Accepted(drag_info.name, animation.target_grid_pos)
                 /\ drag_moves' = drag_moves + 1
            ELSE UNCHANGED <<width, height, is_guranteed_valid_moves, session_vars, result,
                             moves, pc, drag_moves>>
         /\ LET u == DropFinished(Window)
            IN  /\ ui_state' = u.ui_state
                /\ animation' = u.animation
                /\ drag_info' = u.drag_info

\* self.update(): the first call of the frame
Update ==
    /\ pc = "ready"
    /\ frame = "update"
    /\ IF ui_state \in {"ANIMATING_PICKUP", "ANIMATING_DROP"}
       THEN \E finished \in BOOLEAN : UpdatePieceAnimations(finished)
       ELSE UNCHANGED <<width, height, is_guranteed_valid_moves, session_vars, result, moves,
                        pc, ui_state, drag_info, animation, drag_moves>>
    /\ frame' = "draw_pieces_in_tray"
    /\ UNCHANGED <<rng, stream, twin, pending, schedule, solution, piece_tray_rects, events>>

\* self.draw_board(), self.draw_hud(), self.draw_pieces_in_tray()
Draw ==
    /\ pc = "ready"
    /\ frame = "draw_pieces_in_tray"
    /\ piece_tray_rects' = draw_pieces_in_tray(Window, current_pieces)
    /\ frame' = "_update_piece_animations"
    /\ UNCHANGED <<width, height, is_guranteed_valid_moves, session_vars, result, moves, pc,
                   rng, stream, twin, pending, schedule, solution,
                   ui_state, drag_info, animation, events, drag_moves>>

\* lines 282-283: the second call of the frame
Animate ==
    /\ pc = "ready"
    /\ frame = "_update_piece_animations"
    /\ IF ui_state \in {"ANIMATING_PICKUP", "ANIMATING_DROP"}
       THEN \E finished \in BOOLEAN : UpdatePieceAnimations(finished)
       ELSE UNCHANGED <<width, height, is_guranteed_valid_moves, session_vars, result, moves,
                        pc, ui_state, drag_info, animation, drag_moves>>
    /\ frame' = "handle_input"
    /\ UNCHANGED <<rng, stream, twin, pending, schedule, solution, piece_tray_rects, events>>

\* run() on a session as the constructor leaves it, built as __main__ builds it
InitManual ==
    /\ \E board_size \in TwinBoardSizes : width = board_size[1] /\ height = board_size[2]
    /\ is_guranteed_valid_moves = TRUE
    /\ board = 0
    /\ score = 0
    /\ combo = -1
    /\ not_combo_counter = 3
    /\ score_increment = 0
    /\ score_incremental_acceleration = 0
    /\ game_over = FALSE
    /\ \E sample \in SampleOutcomes : current_pieces = _deal_new_pieces(sample)
    /\ result = NoResult
    /\ moves = 0
    /\ pc = "ready"
    /\ OneSession

NextManual == MouseEvent \/ HandleInput \/ Update \/ Draw \/ Animate

SpecManual == InitManual /\ [][NextManual]_vars

Next == MakeMove

Spec == Init /\ [][Next]_vars

NextTry == MakeMove \/ TryMove

SpecTry == Init /\ [][NextTry]_vars

(***************************************************************************)
(* Claims.                                                                 *)
(***************************************************************************)
\* the last call was make_move and it returned an error
LastMoveRejected == result.op = "make_move" /\ result.status = "error"

\* C1: a make_move call that returns an error (terminal session, piece not
\* held, illegal placement) leaves board, score, combo, not_combo_counter,
\* score_increment, score_incremental_acceleration, current_pieces and
\* game_over as they were, and the session still takes calls.
C1_RejectedMoveChangesNothing ==
    [][(result'.op = "make_move" /\ result'.status = "error")
          => (UNCHANGED session_vars /\ pc' = "ready")]_vars

\* C1 witness: an illegal placement was rejected in the middle of a live game
C1_Witness ==
    /\ LastMoveRejected
    /\ result.message = "Invalid move."
    /\ moves > 0 /\ board # 0 /\ ~game_over

\* C2 (as claimed): right after every make_move call, accepted or rejected,
\* game_over holds exactly when get_possible_moves() is empty.
C2_GameOverIffNoMoves ==
    result.op = "make_move"
        => (game_over <=> NoPossibleMoves(width, height, board, current_pieces))

\* C3: once game_over is true it stays true, and board, score, combo and
\* current_pieces never change again, whatever make_move and try_move calls
\* follow.
C3_TerminalIsPermanent ==
    [][game_over => /\ game_over'
                    /\ board' = board
                    /\ score' = score
                    /\ combo' = combo
                    /\ current_pieces' = current_pieces]_vars

\* C3 witness: make_move was called on a terminal session
C3_Witness ==
    /\ game_over
    /\ LastMoveRejected
    /\ result.message = "Game is over."
    /\ moves > 0

\* the error the claim C4 prescribes for a call, "" for none
C4_Prescribed(piece_name, position) ==
    CASE game_over -> "Game is over."
      [] ~game_over /\ piece_name \notin SeqRange(current_pieces)
            -> "Piece '" \o piece_name \o "' unavailable."
      [] ~game_over /\ piece_name \in SeqRange(current_pieces)
                    /\ ~is_valid_move(width, height, board, piece_name, position)
            -> "Invalid move."
      [] OTHER -> ""

\* C4: make_move(piece, pos) is rejected exactly when the session is
\* terminal, or the piece is not held, or the placement is not valid on the
\* live board, and succeeds otherwise; the error reported is the terminal one
\* first, then piece-not-held, then illegal placement.
C4_RejectedIffAndInOrder ==
    \A piece_name \in PieceNames, position \in CallPositions :
        pc = "ready" =>
            IF C4_Prescribed(piece_name, position) = ""
            THEN ~ENABLED MakeMoveRejected(piece_name, position)
            ELSE /\ ~ENABLED MakeMoveAccepted(piece_name, position)
                 /\ ENABLED MakeMoveRejected(piece_name, position)
                 /\ ~ENABLED (/\ MakeMoveRejected(piece_name, position)
                              /\ result'.message # C4_Prescribed(piece_name, position))

\* C4 witness: a call on a terminal session, where every piece is also either
\* not held or not placeable, was answered with the terminal error
C4_Witness ==
    /\ game_over
    /\ result.op = "make_move"
    /\ result.message = "Game is over."
    /\ \E piece_name \in PieceNames : piece_name \notin SeqRange(current_pieces)

\* some catalog piece has a legal placement on board b
SomePiecePlaceable(w, h, b) ==
    \E name \in PieceNames : _can_place_piece(w, h, b, name) # << >>

DealReturned == result.op = "_guaranteed_deal_new_pieces" /\ pc = "ready"

\* C5: from any board on which at least one catalog piece has a legal
\* placement, _guaranteed_deal_new_pieces terminates for every outcome of the
\* shuffle and leaves exactly 3 names in current_pieces.
C5_GuaranteedDealTerminates ==
    SomePiecePlaceable(width, height, board)
        => /\ pc # "dealing"
           /\ result.op = "_guaranteed_deal_new_pieces" => Len(current_pieces) = 3

\* C5 witness: the dealer returned on a board with a single free cell, where
\* nothing but sq1 fits until a line is cleared
C5_Witness ==
    /\ DealReturned
    /\ bit_count(board) = width * height - 1
    /\ Len(current_pieces) = 3

\* the names of pieces can be placed one after another in the order given,
\* each at some legal position, line clears applied as try_move applies them
RECURSIVE CanPlaceInOrder(_, _, _, _)
CanPlaceInOrder(w, h, b, pieces) ==
    IF pieces = << >> THEN TRUE
    ELSE \E k \in DOMAIN RowMajor(w, h) :
            /\ is_valid_move(w, h, b, Head(pieces), RowMajor(w, h)[k])
            /\ CanPlaceInOrder(w, h,
                   TryMovePlaced(w, h, b, Head(pieces), RowMajor(w, h)[k]).board,
                   Tail(pieces))

\* the same, each piece at the first legal position of the row-major scan
RECURSIVE CanPlaceFirstFit(_, _, _, _)
CanPlaceFirstFit(w, h, b, pieces) ==
    IF pieces = << >> THEN TRUE
    ELSE LET fits == ValidPositions(w, h, b, Head(pieces))
         IN  /\ fits # << >>
             /\ CanPlaceFirstFit(w, h,
                    TryMovePlaced(w, h, b, Head(pieces), fits[1]).board,
                    Tail(pieces))

\* the last make_move succeeded and ended with a guaranteed deal
AfterGuaranteedDeal ==
    /\ result.op = "make_move" /\ result.status = "success"
    /\ is_guranteed_valid_moves
    /\ Len(current_pieces) = 3

\* C6: after every guaranteed deal there are an ordering of the 3 held
\* pieces and a legal position for each such that placing them one after
\* another on the live board, with line clears as in try_move, places all
\* three.
C6_DealtHandPlaceableInSomeOrder ==
    AfterGuaranteedDeal
        => \E p \in HandShuffles :
              CanPlaceInOrder(width, height, board, Shuffled(current_pieces, p))

\* C6 witness: a guaranteed deal on a board that is not empty, after which
\* the hand as exposed cannot be placed in its own order
C6_Witness ==
    /\ AfterGuaranteedDeal
    /\ board # 0
    /\ ~CanPlaceInOrder(width, height, board, current_pieces)

\* C7 (as claimed): after every guaranteed deal the 3 pieces can be placed
\* in the order in which current_pieces exposes them.
C7_DealtHandPlaceableInReturnedOrder ==
    AfterGuaranteedDeal => CanPlaceInOrder(width, height, board, current_pieces)

\* C7 (amended): after every guaranteed deal the 3 pieces can be placed in
\* the order in which the dealer's walk collected them, each at the first
\* legal position of the row-major scan; current_pieces exposes that order
\* shuffled.
C7_DealtHandPlaceableInWalkOrder ==
    AfterGuaranteedDeal
        => \E p \in HandShuffles :
              CanPlaceFirstFit(width, height, board, Shuffled(current_pieces, p))

\* C7 witness: a guaranteed deal whose first exposed piece has no legal
\* position on the live board
C7_Witness ==
    /\ AfterGuaranteedDeal
    /\ _can_place_piece(width, height, board, current_pieces[1]) = << >>

\* C8: two sessions constructed with the same board size, mode and seed and
\* fed the same make_move calls hold the same score, combo, board and held
\* pieces once both have been fed every call, whether the second session is
\* constructed after the first was played or both are constructed first and
\* the calls alternate.
C8_SameSeedSameOutcome ==
    (twin # << >> /\ pending = << >> /\ pc = "ready")
        => /\ twin[1].score = score
           /\ twin[1].combo = combo
           /\ twin[1].board = board
           /\ twin[1].current_pieces = current_pieces

\* no row and no column of board b is full
NoFullLine(w, h, b) ==
    /\ \A r \in DOMAIN row_masks(w, h) : BitAnd(b, row_masks(w, h)[r]) # row_masks(w, h)[r]
    /\ \A c \in DOMAIN col_masks(w, h) : BitAnd(b, col_masks(w, h)[c]) # col_masks(w, h)[c]

\* C9: after every successful make_move the live board has no full row and
\* no full column, and neither has the board a successful try_move returns.
C9_NoFullLineSurvives ==
    /\ (result.op = "make_move" /\ result.status = "success")
          => NoFullLine(width, height, board) /\ result.board = board
    /\ (result.op = "try_move" /\ result.status = "success")
          => NoFullLine(width, height, result.board)

\* C9 witness: a successful try_move on a live board that holds cells
\* cleared a line and returned another board
C9_Witness ==
    /\ result.op = "try_move" /\ result.status = "success"
    /\ result.lines_cleared > 0
    /\ board # 0
    /\ result.board # board

\* the cells (x, y) of the bits of board b, bit y*width+x
CellsOf(w, b) ==
    {<<k % w, k \div w>> : k \in {i \in 0..30 : Shr(b, i) % 2 = 1}}

\* the interior of a piece: the cells (c, r) of its shape, bit r*piece_w+c
\* of the compact mask
Interior(piece_name) ==
    {<<k % name_to_size[piece_name][1], k \div name_to_size[piece_name][1]>> :
        k \in {i \in 0..24 : Shr(name_to_pieces[piece_name], i) % 2 = 1}}

\* C10: the live board never has a bit outside [0, width*height), and a
\* placement make_move accepts at (x, y) sets exactly the cells (x+c, y+r)
\* of the piece's interior: all of them on the grid and free before, and no
\* other cell.
C10_PlacementStaysOnGrid ==
    /\ board \in Boards(width, height)
    /\ \A piece_name \in SeqRange(current_pieces), position \in CallPositions :
          Rejection(Self, piece_name, position) = ""
              => LET placed == BitOr(board, get_piece_mask(width, height, piece_name, position))
                     cells  == {<<position[1] + cr[1], position[2] + cr[2]>> :
                                   cr \in Interior(piece_name)}
                 IN  /\ cells \subseteq (0..(width - 1)) \X (0..(height - 1))
                     /\ cells \cap CellsOf(width, board) = {}
                     /\ CellsOf(width, placed) = CellsOf(width, board) \cup cells

\* C10 witness: a two-cell piece was accepted away from the origin on a
\* board that already held a cell, and a further placement is legal
C10_Witness ==
    /\ result.op = "make_move" /\ result.status = "success"
    /\ bit_count(board) >= 2
    /\ \E piece_name \in SeqRange(current_pieces), position \in CallPositions :
          /\ position # <<0, 0>>
          /\ Rejection(Self, piece_name, position) = ""

\* C11: whenever is_valid_move holds for a board, piece and position, then
\* after the placement mask is OR-ed into the board (no line clearing)
\* is_valid_move is false for the same piece and position on the new board.
C11_PlacedPieceCannotBePlacedAgain ==
    result.op = "place"
        => ~is_valid_move(width, height, board, result.piece_name, result.position)

\* C11 witness: a piece whose shape leaves its corner cell empty was placed
\* away from the origin on a board that already held cells
C11_Witness ==
    /\ result.op = "place"
    /\ result.piece_name = "diag2"
    /\ result.position # <<0, 0>>
    /\ result.board # 0

\* the cells a piece covers when placed at position
Footprint(piece_name, position) ==
    {<<position[1] + cr[1], position[2] + cr[2]>> : cr \in Interior(piece_name)}

\* this step is make_move accepting piece_name at position
JustPlaced(piece_name, position) ==
    /\ moves' = moves + 1
    /\ pc' = "ready"
    /\ Rejection(Self, piece_name, position) = ""
    /\ LET s == Commit(Self, piece_name, position).session
       IN  /\ board' = s.board
           /\ score' = s.score
           /\ s.current_pieces # << >> => current_pieces' = s.current_pieces

\* the cells of the piece just placed that are still occupied after the move
PlacedCellsLeft(piece_name, position) ==
    Footprint(piece_name, position) \cap CellsOf(width, board')

RowCompleted(position) ==
    \E y \in DOMAIN row_masks(width, height) :
        BitOr(board, get_piece_mask(width, height, "line4h", position))
            = row_masks(width, height)[y]

\* C13 (as claimed): on a board 8 wide that starts empty with combo -1, the
\* fourth of four line4h pieces placed end to end in rows (the first two
\* filled a row: score 8 + 34, and the third brought it to 46) completes the
\* row, the four placements clear one line in total, combo ends at 0 and the
\* score at the flat 16 plus floor(34.2 * 1) = 34.
C13_FourLine4hOneClear ==
    [][\A position \in CallPositions :
          (/\ moves = 3 /\ score = 46 /\ combo = 0
           /\ JustPlaced("line4h", position) /\ RowCompleted(position))
              => (combo' = 0 /\ score' = 16 + 34)]_vars

\* C13 (amended): on a board 8 wide that starts empty with combo -1, the
\* second of two line4h pieces placed end to end completes the row: that move
\* clears exactly 1 line and leaves the board empty, combo goes from -1 to 0,
\* and the bonus floor(34.2 * 1) = 34 is added to the flat placement score of
\* 8 (2 pieces of 4 cells).
C13_TwoLine4hOneClear ==
    [][\A position \in CallPositions :
          (moves = 1 /\ JustPlaced("line4h", position) /\ RowCompleted(position))
              => /\ combo = -1 /\ combo' = 0
                 /\ result'.lines_cleared = 1
                 /\ board' = 0
                 /\ score = 4 /\ score' = 8 + 34
                 /\ score_increment' = 3420000]_vars

\* C13 witness: two line4h pieces were accepted and the second cleared a row
C13_Witness ==
    /\ moves = 2
    /\ result.op = "make_move" /\ result.status = "success"
    /\ result.lines_cleared = 1
    /\ board = 0
    /\ current_pieces = <<"line4h", "line4h">>

\* C14: get_possible_moves has a key for exactly the held names that have a
\* valid position on the live board; the list of a key holds exactly the
\* positions for which is_valid_move is true, each once, y ascending and
\* then x ascending.
C14_PossibleMovesExact ==
    LET pm == get_possible_moves(width, height, board, current_pieces)
        fits(name) == {pos \in CallPositions :
                          is_valid_move(width, height, board, name, pos)}
    IN  /\ DOMAIN pm = {name \in SeqRange(current_pieces) : fits(name) # {}}
        /\ \A name \in DOMAIN pm :
              /\ SeqRange(pm[name]) = fits(name)
              /\ \A i, j \in DOMAIN pm[name] :
                    i < j => \/ pm[name][i][2] < pm[name][j][2]
                             \/ /\ pm[name][i][2] = pm[name][j][2]
                                /\ pm[name][i][1] < pm[name][j][1]

\* C14 witness: after a successful make_move that left cells on a board of
\* two rows, one held piece has no valid position and another has valid
\* positions in both rows
C14_Witness ==
    LET pm == get_possible_moves(width, height, board, current_pieces)
    IN  /\ result.op = "make_move" /\ result.status = "success"
        /\ board # 0
        /\ \E name \in SeqRange(current_pieces) : name \notin DOMAIN pm
        /\ \E name \in DOMAIN pm :
              \E i, j \in DOMAIN pm[name] : pm[name][i][2] # pm[name][j][2]

\* C15: try_move changes no session state, whatever board, piece and position
\* it is given; nor does the solver's search, which calls it; and after a
\* make_move that ends in a guaranteed deal the session holds the board and
\* the score of the placement itself, not the dealer's scratch board
C15_TryMoveLeavesSession ==
    [][/\ result'.op \in {"try_move", "solve"}
          => UNCHANGED <<width, height, is_guranteed_valid_moves, session_vars>>
       /\ (/\ result.op = "solve" /\ result.status = "returned"
           /\ result'.op = "make_move" /\ result'.status = "success"
           /\ Len(current_pieces) = 1 /\ is_guranteed_valid_moves)
          => LET s == Commit(Self, result.move[1], result.move[2]).session
             IN  /\ board' = s.board
                 /\ score' = s.score
                 /\ combo' = s.combo]_vars

C15_Witness ==
    /\ result.op = "try_move" /\ result.status = "success"
    /\ result.board # board
    /\ solution # << >>

(***************************************************************************)
(* The solver's search as a function of the session it is given: any board *)
(* without a full line and any hand of one to three names.                 *)
(***************************************************************************)
Hands == UNION {[1..n -> PieceNames] : n \in 1..3}

InitSearch ==
    /\ \E board_size \in WideBoardSizes : width = board_size[1] /\ height = board_size[2]
    /\ is_guranteed_valid_moves \in BOOLEAN
    /\ board \in {b \in Boards(width, height) : NoFullLine(width, height, b)}
    /\ score = 0
    /\ combo = -1
    /\ not_combo_counter = 3
    /\ score_increment = 0
    /\ score_incremental_acceleration = 0
    /\ current_pieces \in Hands
    /\ game_over = NoPossibleMoves(width, height, board, current_pieces)
    /\ result = NoResult
    /\ moves = 0
    /\ pc = "ready"
    /\ OneSession

SpecSearch == InitSearch /\ [][Solve]_vars

\* the complete legal ways to play the hand from board b, each a sequence of
\* <<i, position>>: the i-th name of what is left of the hand goes to
\* position, on the board make_move leaves after the steps before
RECURSIVE Plans(_, _, _, _)
Plans(w, h, b, pieces) ==
    IF pieces = << >> THEN {<< >>}
    ELSE UNION {UNION {{<<<<i, position>>>> \o rest :
                         rest \in Plans(w, h,
                             MakeMoveClear(w, h,
                                 BitOr(b, get_piece_mask(w, h, pieces[i], position))).board,
                             RemoveAt(pieces, i))} :
                       position \in {p \in (0..(w - 1)) \X (0..(h - 1)) :
                                        is_valid_move(w, h, b, pieces[i], p)}} :
                i \in 1..Len(pieces)}

\* the moves a plan stands for
RECURSIVE MovesOf(_, _)
MovesOf(pieces, plan) ==
    IF plan = << >> THEN << >>
    ELSE <<<<pieces[plan[1][1]], plan[1][2]>>>>
            \o MovesOf(RemoveAt(pieces, plan[1][1]), Tail(plan))

\* step a is tried before step b: held-list index, then y, then x
TriedBefore(a, b) ==
    \/ a[1] < b[1]
    \/ a[1] = b[1] /\ a[2][2] < b[2][2]
    \/ a[1] = b[1] /\ a[2][2] = b[2][2] /\ a[2][1] < b[2][1]

\* plan p is met no later than plan q by a depth-first walk
RECURSIVE MetNoLater(_, _)
MetNoLater(p, q) ==
    \/ p = << >>
    \/ TriedBefore(p[1], q[1])
    \/ p[1] = q[1] /\ MetNoLater(Tail(p), Tail(q))

Count(q, name) == Cardinality({i \in DOMAIN q : q[i] = name})

\* the last call of solve ran get_solution on the session as it is now:
\* it raised on None, or served the first move of a sequence as long as the
\* hand
Searched ==
    /\ result.op = "solve"
    /\ \/ result.status = "raised"
       \/ result.status = "returned" /\ Len(solution) = Len(current_pieces) - 1

\* C16: get_solution returns a sequence that uses every held piece instance
\* exactly once, each step legal on the board the steps before it produce
\* with line clears applied, and it is the first such sequence in depth-first
\* order (held-list index, then y, then x, at every depth); it returns None
\* exactly when no such sequence exists
C16_GetSolutionFirstFullSequence ==
    /\ Searched /\ result.status = "raised"
          => Plans(width, height, board, current_pieces) = {}
    /\ Searched /\ result.status = "returned"
          => LET sequence == <<result.move>> \o solution
                 P == Plans(width, height, board, current_pieces)
             IN  /\ \A name \in PieceNames :
                        Count([n \in DOMAIN sequence |-> sequence[n][1]], name)
                            = Count(current_pieces, name)
                 /\ \E p \in P : /\ MovesOf(current_pieces, p) = sequence
                                 /\ \A q \in P : MetNoLater(p, q)

\* the solver returned a sequence that does not start with the first legal
\* step: the search backed out of at least one branch
C16_Witness ==
    /\ Searched /\ result.status = "returned"
    /\ Len(current_pieces) = 3
    /\ board # 0
    /\ \E p \in (0..(width - 1)) \X (0..(height - 1)) :
          /\ is_valid_move(width, height, board, current_pieces[1], p)
          /\ TriedBefore(<<1, p>>, <<IF result.move[1] = current_pieces[1] THEN 1 ELSE 2,
                                     result.move[2]>>)

\* C17: when the held pieces cannot all be placed, also in a session that is
\* not over because one of them still has a legal move, solve ends with a
\* defined "no solution" outcome and raises nothing
C17_SolveEndsDefined ==
    (result.op = "solve" /\ ~game_over) => result.status # "raised"

\* C18: solve runs the search only when its cached sequence is empty; when
\* it is not, solve removes the head of the cache and returns it, so the
\* moves of one search are served one per call, in order, with no new search
C18_SolveServesCacheInOrder ==
    [][result'.op = "solve" =>
          IF Cached
          THEN /\ result'.status = "returned"
               /\ result'.move = Head(solution)
               /\ solution' = Tail(solution)
          ELSE LET g == get_solution(Self)
               IN  IF g.found
                   THEN /\ result'.status = "returned"
                        /\ <<result'.move>> \o solution' = g.sequence
                   ELSE result'.status = "raised"]_vars

\* a move served from the cache that a search on the session as it is would
\* not have returned
C18_Witness ==
    /\ result.op = "solve" /\ result.status = "returned"
    /\ solution # << >>
    /\ LET g == get_solution(Self)
       IN  ~g.found \/ Head(g.sequence) # result.move

\* make_move accepted the call of this step
MoveAccepted ==
    /\ moves' = moves + 1
    /\ result'.op = "make_move" /\ result'.status = "success"

\* C19: on a move that clears lines, if not_combo_counter as it was before
\* the move, plus lines_cleared, is at most 1, the combo restarts: combo is
\* 0 after the move and score_increment holds one acceleration only
C19_ComboRestartsAfterGap ==
    [][(/\ MoveAccepted
        /\ result'.lines_cleared > 0
        /\ not_combo_counter + result'.lines_cleared <= 1)
          => /\ combo' = 0
             /\ score_increment' = BASE_SCORE_ACCELERATION]_vars

\* C20: score_incremental_acceleration changes only on a move that clears
\* lines, and only when combo after the increment is 0 (it becomes 34.2),
\* 5 (times 4), 6 (times 0.375), 10 (times 4.6666) or 11 (times 0.2857);
\* the change is applied on the move at which combo takes that value and on
\* every other move the acceleration stays as it is
C20_AccelerationChangesAtThresholds ==
    [][LET acc == score_incremental_acceleration
           cleared == MoveAccepted /\ result'.lines_cleared > 0
       IN  score_incremental_acceleration' =
               IF ~cleared THEN acc
               ELSE CASE combo' = 0  -> 3420000
                      [] combo' = 5  -> acc * 4
                      [] combo' = 6  -> (acc * 3) \div 8
                      [] combo' = 10 -> MulRatio(acc, 46666, 10000)
                      [] combo' = 11 -> MulRatio(acc, 2857, 10000)
                      [] OTHER -> acc]_vars

\* combo reached 11 and the acceleration has gone through all five changes
C20_Witness ==
    /\ result.op = "make_move" /\ result.status = "success"
    /\ combo = 11
    /\ score_incremental_acceleration = 6839560

\* the name make_move took out of the hand in this step
PlayedPiece ==
    IF Len(current_pieces) = 1 THEN current_pieces[1]
    ELSE CHOOSE name \in SeqRange(current_pieces) :
             current_pieces' = Remove(current_pieces, name)

\* the cells of the unscaled interior of a piece
Popcount(piece_name) == Cardinality(Interior(piece_name))

\* C21: a successful move that clears n >= 1 lines adds to score the number
\* of cells of the piece plus floor(score_increment * multiplier(n)), with
\* score_increment as it is after this move added the acceleration and
\* multiplier 1, 2, 6, 12, 20, 30 for n = 1..6; combo goes up by exactly 1
\* and not_combo_counter is 3 afterwards
C21_ClearingMoveScore ==
    [][(MoveAccepted /\ result'.lines_cleared >= 1) =>
          LET n == result'.lines_cleared
              multiplier == <<1, 2, 6, 12, 20, 30>>[n]
          IN  /\ score_increment' = score_increment + score_incremental_acceleration'
              /\ score' = score + Popcount(PlayedPiece)
                              + (score_increment' * multiplier) \div 100000
              /\ combo' = combo + 1
              /\ not_combo_counter' = 3]_vars

\* a move that cleared three lines at once, late in a combo run
C21_Witness ==
    /\ result.op = "make_move" /\ result.status = "success"
    /\ result.lines_cleared = 3
    /\ combo >= 6
    /\ not_combo_counter = 3

\* C22: a successful move that clears no line adds to score exactly the
\* number of cells of the piece, takes 1 off not_combo_counter (below 0 too)
\* and leaves combo, score_increment and score_incremental_acceleration
C22_NonClearingMoveScore ==
    [][(MoveAccepted /\ result'.lines_cleared = 0) =>
          /\ score' = score + Popcount(PlayedPiece)
          /\ not_combo_counter' = not_combo_counter - 1
          /\ UNCHANGED <<combo, score_increment,
                         score_incremental_acceleration>>]_vars

\* a fourth move in a row that cleared nothing, after a line clear
C22_Witness ==
    /\ result.op = "make_move" /\ result.status = "success"
    /\ result.lines_cleared = 0
    /\ not_combo_counter = -1
    /\ combo = 0

(***************************************************************************)
(* Calls on a session in the middle of a game: any board without a full    *)
(* line on a board of 3 by 2 or 2 by 3, a hand as dealt (the samples drawn *)
(* in catalog order), uniform dealing.                                     *)
(***************************************************************************)
InitWide ==
    /\ \E board_size \in MidGameBoardSizes : width = board_size[1] /\ height = board_size[2]
    /\ is_guranteed_valid_moves = FALSE
    /\ board \in {b \in Boards(width, height) : NoFullLine(width, height, b)}
    /\ score = 0
    /\ combo = -1
    /\ not_combo_counter = 3
    /\ score_increment = 0
    /\ score_incremental_acceleration = 0
    /\ \E sample \in {t \in SampleOutcomes : t[1] < t[2] /\ t[2] < t[3]} :
          current_pieces = _deal_new_pieces(sample)
    /\ game_over = NoPossibleMoves(width, height, board, current_pieces)
    /\ result = NoResult
    /\ moves = 0
    /\ pc = "ready"
    /\ OneSession

WideMove ==
    /\ \E piece_name \in PieceNames, position \in CallPositions :
          \/ MakeMoveRejected(piece_name, position)
          \/ moves < WideMoves /\ Accepted(piece_name, position)
    /\ UNCHANGED process_vars

\* try_move on the live board, as the first call on the session
TryWide ==
    /\ result = NoResult
    /\ TryMove

SpecWide == InitWide /\ [][WideMove \/ TryWide]_vars

\* the rows and the columns of which every cell is in cells
FullRows(w, h, cells) == {r \in 0..(h - 1) : \A x \in 0..(w - 1) : <<x, r>> \in cells}
FullColumns(w, h, cells) == {c \in 0..(w - 1) : \A y \in 0..(h - 1) : <<c, y>> \in cells}

\* placing piece_name at position on board b gives out_board and out_lines:
\* the full rows and columns of the board with the piece on it are counted,
\* and exactly the cells on them are taken off
ClearsFullLines(w, h, b, piece_name, position, out_board, out_lines) ==
    LET placed == CellsOf(w, b) \cup Footprint(piece_name, position)
        rows   == FullRows(w, h, placed)
        cols   == FullColumns(w, h, placed)
    IN  /\ out_lines = Cardinality(rows) + Cardinality(cols)
        /\ CellsOf(w, out_board) = {c \in placed : c[2] \notin rows /\ c[1] \notin cols}

\* C23: the lines_cleared that make_move and try_move report is the number
\* of full rows plus the number of full columns of the board with the piece
\* on it, all found before a cell is cleared; the board they leave is that
\* board without the cells of those lines and with every other cell as it
\* was; a placement that completes a row and a column clears both
C23_LinesCountedThenCleared ==
    [][/\ MoveAccepted =>
             \A position \in GapPositions :
                JustPlaced(PlayedPiece, position)
                   => ClearsFullLines(width, height, board, PlayedPiece, position,
                                      board', result'.lines_cleared)
       /\ (result'.op = "try_move" /\ result'.status = "success") =>
             \A b \in HeldBoards, piece_name \in PieceNames, position \in GapPositions :
                result' = try_move(Self, b, piece_name, position)
                   => ClearsFullLines(width, height, b, piece_name, position,
                                      result'.board, result'.lines_cleared)]_vars

\* a try_move on the live board whose placement completed one row and one
\* column at once reported 2
C23_Witness ==
    /\ result.op = "try_move" /\ result.status = "success"
    /\ result.lines_cleared = 2
    /\ \E piece_name \in PieceNames, position \in GapPositions :
          /\ result = try_move(Self, board, piece_name, position)
          /\ LET placed == CellsOf(width, board) \cup Footprint(piece_name, position)
             IN  /\ Cardinality(FullRows(width, height, placed)) = 1
                 /\ Cardinality(FullColumns(width, height, placed)) = 1
(***************************************************************************)
(* Sessions with guaranteed dealing followed over two hands: a board 2     *)
(* wide and 2 high, from construction.  The first hand is dealt uniformly  *)
(* (__init__ calls _deal_new_pieces), the second by the guaranteed dealer, *)
(* which may take a name twice.                                            *)
(***************************************************************************)
InitRound ==
    /\ \E board_size \in TwinBoardSizes : width = board_size[1] /\ height = board_size[2]
    /\ is_guranteed_valid_moves = TRUE
    /\ board = 0
    /\ score = 0
    /\ combo = -1
    /\ not_combo_counter = 3
    /\ score_increment = 0
    /\ score_incremental_acceleration = 0
    /\ game_over = FALSE
    /\ \E sample \in SampleOutcomes : current_pieces = _deal_new_pieces(sample)
    /\ result = NoResult
    /\ moves = 0
    /\ pc = "ready"
    /\ OneSession

RoundMove ==
    /\ \E piece_name \in PieceNames, position \in GapPositions :
          \/ MakeMoveRejected(piece_name, position)
          \/ moves < RoundMoves /\ Accepted(piece_name, position)
    /\ UNCHANGED process_vars

SpecRound == InitRound /\ [][RoundMove]_vars

\* this step is make_move putting piece_name at position: the board and the
\* score are those of that placement
PlacedAs(piece_name, position) ==
    /\ Rejection(Self, piece_name, position) = ""
    /\ board' = Commit(Self, piece_name, position).session.board
    /\ score' = Commit(Self, piece_name, position).session.score

\* hand is held with one instance of piece_name less
OneInstanceLess(held, hand, piece_name) ==
    /\ Len(hand) = Len(held) - 1
    /\ \A name \in PieceNames :
          Count(hand, name) = Count(held, name) - (IF name = piece_name THEN 1 ELSE 0)

\* 1, 2 or 3 names are held, 3 exactly when the number of successful moves
\* is a multiple of 3
HandInStep(hand, n) ==
    /\ Len(hand) \in 1..3
    /\ Len(hand) = 3 <=> n % 3 = 0

\* C24: a successful make_move takes exactly one instance of the played name
\* out of current_pieces, other instances of the same name staying held, and
\* 3 new names are dealt if and only if that empties the hand; so 1, 2 or 3
\* names are held in every state, 3 exactly at the start and after every
\* third successful move
C24_OneInstanceLeavesHand ==
    [][/\ HandInStep(current_pieces, moves)
       /\ HandInStep(current_pieces', moves')
       /\ MoveAccepted =>
             \E piece_name \in SeqRange(current_pieces), position \in GapPositions :
                /\ PlacedAs(piece_name, position)
                /\ IF Len(current_pieces) = 1
                   THEN Len(current_pieces') = 3
                   ELSE OneInstanceLess(current_pieces, current_pieces', piece_name)]_vars

\* the guaranteed dealer dealt a name more than once, and after the next move
\* two instances of one name are held
C24_Witness ==
    /\ result.op = "make_move" /\ result.status = "success"
    /\ moves = 4
    /\ Len(current_pieces) = 2
    /\ current_pieces[1] = current_pieces[2]

\* C25: try_move on a board succeeds exactly when make_move's validity check
\* on that board passes, and the board and lines_cleared it returns are the
\* ones make_move produces when the live board is that board and the piece
\* is held.  Stated for a try_move on the live board followed by make_move:
\* whatever placement the try_move result stands for, make_move rejects it
\* exactly when try_move did, and a make_move of that placement leaves the
\* board and reports the lines_cleared that try_move returned
C25_TryMoveAgreesWithMakeMove ==
    /\ [](result.op = "try_move" =>
             \A piece_name \in SeqRange(current_pieces), position \in CallPositions :
                (~game_over /\ result = try_move(Self, board, piece_name, position)) =>
                   (result.status = "success" <=> Rejection(Self, piece_name, position) = ""))
    /\ [][(result.op = "try_move" /\ MoveAccepted) =>
             \A position \in GapPositions :
                (/\ JustPlaced(PlayedPiece, position)
                 /\ result = try_move(Self, board, PlayedPiece, position)) =>
                   /\ board' = result.board
                   /\ result'.lines_cleared = result.lines_cleared]_vars

\* a try_move on the live board of a placement make_move would accept, which
\* cleared lines and left cells
C25_Witness ==
    /\ result.op = "try_move" /\ result.status = "success"
    /\ result.lines_cleared > 0
    /\ result.board # 0
    /\ \E piece_name \in SeqRange(current_pieces), position \in GapPositions :
          /\ result = try_move(Self, board, piece_name, position)
          /\ Rejection(Self, piece_name, position) = ""
\* C26: with guaranteed dealing and a first hand that can be placed in full,
\* when every move made is the one solve returned, every make_move
\* succeeds, the solver's cache is empty exactly after the move that brings
\* the next deal, and game_over never becomes true
C26_BotPlaysOn ==
    /\ ~game_over
    /\ result.op = "solve" => result.status = "returned"
    /\ result.op = "make_move" =>
          /\ result.status = "success"
          /\ solution = << >> <=> Len(current_pieces) = 3

\* the bot has played two hands and the second deal has been made
C26_Witness ==
    /\ result.op = "make_move" /\ result.status = "success"
    /\ moves = 6
    /\ solution = << >>
    /\ Len(current_pieces) = 3
    /\ board # 0

\* C27: with guaranteed dealing a make_move that empties the hand and deals
\* never returns game_over = true: right after the deal one of the 3 held
\* pieces has a legal placement on the live board, so a session is over
\* only while 1 or 2 pieces are held
C27_GuaranteedDealNotTerminal ==
    /\ (result.op = "make_move" /\ result.status = "success"
            /\ Len(current_pieces) = 3) =>
          /\ ~result.game_over
          /\ \E name \in SeqRange(current_pieces), position \in GapPositions :
                is_valid_move(width, height, board, name, position)
    /\ game_over => Len(current_pieces) \in {1, 2}

\* a guaranteed deal on a board where one of the catalog pieces fits nowhere
C27_Witness ==
    /\ result.op = "make_move" /\ result.status = "success"
    /\ moves = 3 /\ Len(current_pieces) = 3
    /\ ~game_over
    /\ \E name \in PieceNames : _can_place_piece(width, height, board, name) = << >>

\* the largest number of lines SCORE_MULTIPLIERS has an entry for
LargestMultiplierKey == 6

\* C28: in a session started from the empty board a successful move clears
\* at most bounding width + bounding height of the piece, which is at most 6
\* for every piece of the catalog, and every row or column it clears holds a
\* cell of the piece just placed; so SCORE_MULTIPLIERS is never asked for
\* more than 6 lines
C28_ClearedLinesCrossThePiece ==
    [][/\ \A name \in DOMAIN name_to_size :
             name_to_size[name][1] + name_to_size[name][2] <= LargestMultiplierKey
       /\ MoveAccepted =>
             \A position \in GapPositions :
                JustPlaced(PlayedPiece, position) =>
                   LET cells  == Footprint(PlayedPiece, position)
                       placed == CellsOf(width, board) \cup cells
                   IN  /\ result'.lines_cleared
                             <= name_to_size[PlayedPiece][1] + name_to_size[PlayedPiece][2]
                       /\ result'.lines_cleared
                             = Cardinality(FullRows(width, height, placed))
                                 + Cardinality(FullColumns(width, height, placed))
                       /\ \A r \in FullRows(width, height, placed) :
                             \E c \in cells : c[2] = r
                       /\ \A x \in FullColumns(width, height, placed) :
                             \E c \in cells : c[1] = x]_vars

\* a line2h cleared its row and both its columns: as many lines as its
\* bounding width plus height
C28_Witness ==
    /\ result.op = "make_move" /\ result.status = "success"
    /\ result.lines_cleared = 3
    /\ width = 2 /\ height = 1

\* no held piece has a legal position on the live board
LiveBoardStuck ==
    \A name \in SeqRange(current_pieces), position \in GapPositions :
        ~is_valid_move(width, height, board, name, position)

\* C29: the game_over a successful try_move returns is worked out from the
\* live board and the hand of the session, not from the board passed in or
\* returned: in one session state it is the same for every board argument
\* and every legal placement
C29_TryMoveGameOverFromLiveBoard ==
    (result.op = "try_move" /\ result.status = "success") =>
        /\ result.game_over = LiveBoardStuck
        /\ \A b \in Boards(width, height), piece_name \in PieceNames,
              position \in GapPositions :
              is_valid_move(width, height, b, piece_name, position) =>
                 try_move(Self, b, piece_name, position).game_over = LiveBoardStuck

\* try_move returned game_over = false with a board on which no held piece
\* fits
C29_Witness ==
    /\ result.op = "try_move" /\ result.status = "success"
    /\ ~result.game_over
    /\ NoPossibleMoves(width, height, result.board, current_pieces)

(***************************************************************************)
(* Manual play: the drag cycle and the one make_move it commits.           *)
(***************************************************************************)
DragCycle ==
    {<<"IDLE", "ANIMATING_PICKUP">>, <<"ANIMATING_PICKUP", "DRAGGING">>,
     <<"DRAGGING", "ANIMATING_DROP">>, <<"ANIMATING_DROP", "IDLE">>}

\* the drop under way was validated on the board and hand as they are now
DropStillValid ==
    animation.is_valid =>
       /\ is_valid_move(width, height, board, drag_info.name, animation.target_grid_pos)
       /\ drag_info.name \in SeqRange(current_pieces)
       /\ ~game_over

\* C30: in manual play ui_state only moves along IDLE -> ANIMATING_PICKUP ->
\* DRAGGING -> ANIMATING_DROP -> IDLE; a drag issues at most one make_move,
\* only when an ANIMATING_DROP whose release position passed is_valid_move
\* ends, although the animation step runs twice per frame; nothing moves
\* between that validation and the commit, so the committed make_move is
\* never rejected; a drop that failed validation calls no make_move
C30_DragCommitsOneValidMove ==
    /\ [](/\ drag_moves <= 1
          /\ result.op = "make_move" => result.status = "success"
          /\ ui_state = "ANIMATING_DROP" => DropStillValid)
    /\ [][/\ ui_state' # ui_state => <<ui_state, ui_state'>> \in DragCycle
          /\ drag_moves' > drag_moves =>
                /\ ui_state = "ANIMATING_DROP" /\ ui_state' = "IDLE"
                /\ animation.is_valid
                /\ moves' = moves + 1
          /\ (ui_state = "ANIMATING_DROP" /\ ~animation.is_valid) =>
                UNCHANGED <<session_vars, result, moves, drag_moves>>
          /\ ui_state # "ANIMATING_DROP" =>
                UNCHANGED <<session_vars, result, moves>>]_vars

\* a second drag has been committed, and the hand was dealt anew by a third
C30_Witness ==
    /\ ui_state = "IDLE"
    /\ drag_moves = 1
    /\ result.op = "make_move" /\ result.status = "success"
    /\ moves = 3
    /\ Len(current_pieces) = 3

====
